---- MODULE Spec2Model ----
(***************************************************************************)
(* Request lifecycle and approval workflow of the security role request    *)
(* form: the record store (five tables), the main form (create), the edit  *)
(* page, the role-selection pages, the request list and the request        *)
(* details page (auto-approve, complete).                                  *)
(***************************************************************************)
EXTENDS Integers, Sequences, FiniteSets, TLC

\* ------------------------------------------------------------------------
\* Bounds of the model
\* ------------------------------------------------------------------------
MaxRequests == 2
MaxTick == 2
MaxRows == 3
MaxFaults == 1

\* ------------------------------------------------------------------------
\* Vocabulary
\* ------------------------------------------------------------------------
NULL == "null"

AreaTypes == {"accounting_procurement", "hr_payroll", "epm_data_warehouse", "elm"}

AreaSpecificSteps ==
  {"accounting_director_approval", "hr_director_approval", "elm_admin_approval"}

CommonSteps == {"user_signature", "supervisor_approval", "security_admin_approval"}

Steps == CommonSteps \cup AreaSpecificSteps

\* a step name outside the vocabulary, as a row of the store may carry one
OtherStep == "other_step"

ApprovalStatuses == {"pending", "approved", "denied"}

TestSignature == "Test Mode Auto-Signature"

EmployeeIds == {"E1", "E2"}

CompleterNames == {"", " ", "Ann"}

Selections == {"none", "rolesA"}

Justifications == {"", " ", "needed"}

CopiedJustification == "Copied from existing user access"

\* browser tabs; each shows one page at a time
Tabs == {"t1", "t2"}

RequestIds == 1..MaxRequests

\* ------------------------------------------------------------------------
\* State
\* ------------------------------------------------------------------------
VARIABLES
  requests,            \* security_role_requests: live id -> row
  nextRequestId,       \* ids are never reused
  security_areas,      \* set of rows [request_id, area_type, created_at]
  request_approvals,   \* set of rows keyed by (request_id, step, created_at)
  role_selections,     \* security_role_selections: sequence of rows
  copy_user_details,   \* sequence of rows
  tick,                \* per request, the store clock that stamps created_at
  testMode,            \* localStorage 'testMode'
  details,             \* RequestDetailsPage state, per tab
  edit,                \* EditRequestPage state, per tab
  roles,               \* main form / role-selection page state, per tab
  list,                \* RequestListPage state, per tab
  faults               \* store calls rejected so far

vars == <<requests, nextRequestId, security_areas, request_approvals,
          role_selections, copy_user_details, tick, testMode,
          details, edit, roles, list, faults>>

pageVars == <<details, edit, roles, list>>

storeVars == <<requests, nextRequestId, security_areas, request_approvals,
               role_selections, copy_user_details, tick>>

\* ------------------------------------------------------------------------
\* Store: approval rows created when a security area is inserted
\* ------------------------------------------------------------------------
AreaStep(a) ==
  CASE a = "accounting_procurement" -> "accounting_director_approval"
    [] a = "hr_payroll" -> "hr_director_approval"
    [] a = "elm" -> "elm_admin_approval"
    [] OTHER -> NULL

TriggerSteps(a) ==
  CommonSteps \cup (IF AreaStep(a) = NULL THEN {} ELSE {AreaStep(a)})

ApprovalRow(r, st, t) ==
  [request_id |-> r, step |-> st, created_at |-> t, status |-> "pending",
   signature_data |-> NULL, approved_at |-> NULL]

ApprovalsOnAreaInsert(r, a, t) == {ApprovalRow(r, st, t) : st \in TriggerSteps(a)}

AreaRow(r, a, t) == [request_id |-> r, area_type |-> a, created_at |-> t]

RowId(row) == <<row.request_id, row.step, row.created_at>>

ApprovalsOf(r) == {row \in request_approvals : row.request_id = r}

AreasOf(r) == {row \in security_areas : row.request_id = r}


\* ------------------------------------------------------------------------
\* Store operations (the record store's update / delete / insert by filter)
\* ------------------------------------------------------------------------
\* a store call answers ok or is rejected; the model counts the rejections
StoreAnswers(ok) ==
  /\ ~ok => faults < MaxFaults
  /\ faults' = IF ok THEN faults ELSE faults + 1

UpdateApprovals(rows, match, status, sig, at) ==
  {IF row \in match
     THEN [row EXCEPT !.status = status, !.signature_data = sig, !.approved_at = at]
     ELSE row : row \in rows}

\* ------------------------------------------------------------------------
\* RequestDetailsPage: fetchRequestDetails
\* ------------------------------------------------------------------------
\* useState<RequestDetails | null>(null); of a request the model keeps status
NoRequest == [status |-> NULL]

DetailsClosed ==
  [pc |-> "closed", id |-> 0, request |-> NoRequest, approvals |-> <<>>,
   loading |-> FALSE, error |-> FALSE, toast |-> "none"]

stepOrder(step) ==
  CASE step = "user_signature" -> 1
    [] step = "supervisor_approval" -> 2
    [] step = "accounting_director_approval" -> 3
    [] step = "hr_director_approval" -> 3
    [] step = "elm_admin_approval" -> 3
    [] step = "security_admin_approval" -> 4
    [] OTHER -> 3

\* the comparator handed to Array.sort
compareApprovals(a, b) ==
  IF stepOrder(a.step) # stepOrder(b.step)
    THEN stepOrder(a.step) - stepOrder(b.step)
    ELSE a.created_at - b.created_at

\* Array.sort is stable: an element goes after every element that does not
\* compare greater than it
RECURSIVE InsertSorted(_, _)
InsertSorted(sorted, x) ==
  IF sorted = <<>> THEN <<x>>
  ELSE IF compareApprovals(Head(sorted), x) > 0 THEN <<x>> \o sorted
       ELSE <<Head(sorted)>> \o InsertSorted(Tail(sorted), x)

RECURSIVE SortFrom(_, _)
SortFrom(sorted, rest) ==
  IF rest = <<>> THEN sorted
  ELSE SortFrom(InsertSorted(sorted, Head(rest)), Tail(rest))

\* the list as the store returned it, with the sort left out
sortedApprovals_Unsorted(approvalsData) == approvalsData

sortedApprovals(approvalsData) == SortFrom(<<>>, approvalsData)

\* every order in which the store may return a set of rows
RECURSIVE Orders(_)
Orders(S) ==
  IF S = {} THEN {<<>>}
  ELSE UNION {{<<x>> \o o : o \in Orders(S \ {x})} : x \in S}

\* .order('created_at', { ascending: true }): rows of equal created_at come
\* in any order
RECURSIVE OrdersByCreatedAt(_)
OrdersByCreatedAt(S) ==
  IF S = {} THEN {<<>>}
  ELSE LET first == {x \in S : \A y \in S : x.created_at <= y.created_at}
       IN UNION {{<<x>> \o o : o \in OrdersByCreatedAt(S \ {x})} : x \in first}

\* the flag without its length test
allApprovalsApproved_NoLength(approvals) ==
  \A i \in 1..Len(approvals) : approvals[i].status = "approved"

\* the derived flags of the render
allApprovalsApproved(approvals) ==
  Len(approvals) > 0 /\ \A i \in 1..Len(approvals) : approvals[i].status = "approved"

\* the gate without its status test
canCompleteRequest_NoStatus(page) == allApprovalsApproved(page.approvals)

canCompleteRequest(page) ==
  allApprovalsApproved(page.approvals) /\ page.request.status # "completed"

\* the page shows its buttons: not the loading skeleton, not the error page
Interactive(page) ==
  page.pc = "idle" /\ ~page.loading /\ ~page.error /\ page.request # NoRequest


\* ------------------------------------------------------------------------
\* Pages a tab is not showing
\* ------------------------------------------------------------------------
EditClosed ==
  [pc |-> "closed", id |-> 0, existingArea |-> NULL, securityArea |-> NULL,
   selectedOption |-> NULL, toast |-> "none"]

RolesClosed == [page |-> "closed", requestId |-> 0, toast |-> "none"]

ListClosed == [pc |-> "closed", requests |-> <<>>, toast |-> "none"]

ListOpening == [pc |-> "fetching", requests |-> <<>>, toast |-> "none"]

\* the tab shows no page in the middle of a handler
TabIdle(t) ==
  /\ details[t].pc \in {"closed", "idle"}
  /\ edit[t].pc \in {"closed", "form"}
  /\ list[t].pc \in {"closed", "fetching", "idle"}

Init ==
  /\ requests = <<>>
  /\ nextRequestId = 1
  /\ security_areas = {}
  /\ request_approvals = {}
  /\ role_selections = <<>>
  /\ copy_user_details = <<>>
  /\ tick = [r \in RequestIds |-> 0]
  /\ testMode = FALSE
  /\ details = [t \in Tabs |-> DetailsClosed]
  /\ edit = [t \in Tabs |-> EditClosed]
  /\ roles = [t \in Tabs |-> RolesClosed]
  /\ list = [t \in Tabs |-> ListClosed]
  /\ faults = 0


\* ------------------------------------------------------------------------
\* Store: security_role_selections (request_id is unique: the upserts name
\* it as their conflict target) and the other tables
\* ------------------------------------------------------------------------
RoleRowsOf(r) == SelectSeq(role_selections, LAMBDA row : row.request_id = r)

UpsertRoleSelection(rows, row) ==
  IF \E i \in 1..Len(rows) : rows[i].request_id = row.request_id
    THEN [i \in 1..Len(rows) |->
            IF rows[i].request_id = row.request_id THEN row ELSE rows[i]]
    ELSE Append(rows, row)

\* a plain insert is rejected when the request already has a row
InsertRoleSelectionFails(rows, row) ==
  \E i \in 1..Len(rows) : rows[i].request_id = row.request_id

DeleteByRequest(rows, r) == SelectSeq(rows, LAMBDA row : row.request_id # r)

\* the insert names no status: the column's default
DefaultStatus == "pending"

RequestRow(employeeId) ==
  [status |-> DefaultStatus, employee_id |-> employeeId,
   completed_by |-> NULL, completed_at |-> NULL]

Live(r) == r \in DOMAIN requests

\* ------------------------------------------------------------------------
\* Main form (App): copyExistingUserRoles, onSubmit, handleProceedToRoleSelection
\* ------------------------------------------------------------------------
\* .eq('employee_id', ..).eq('status', 'completed').order('created_at', desc).limit(1)
CompletedRequestsOf_AnyStatus(copyFromEmployeeId) ==
  {r \in DOMAIN requests : requests[r].employee_id = copyFromEmployeeId}

CompletedRequestsOf(copyFromEmployeeId) ==
  {r \in DOMAIN requests :
     requests[r].employee_id = copyFromEmployeeId /\ requests[r].status = "completed"}

MostRecent_Oldest(S) == CHOOSE r \in S : \A q \in S : r <= q

MostRecent(S) == CHOOSE r \in S : \A q \in S : q <= r

\* the role_selections table after copyExistingUserRoles(newRequestId, ..);
\* fail names the store call that is rejected, every error is swallowed
copyExistingUserRoles(rows, newRequestId, copyFromEmployeeId, fail) ==
  LET found == CompletedRequestsOf(copyFromEmployeeId) IN
  IF fail = "find" \/ found = {} THEN rows
  ELSE LET existing == SelectSeq(rows, LAMBDA row : row.request_id = MostRecent(found)) IN
       IF fail = "roles" \/ Len(existing) # 1 THEN rows
       ELSE LET existingRoles == existing[1]
                newRoleSelections ==
                  [existingRoles EXCEPT
                     !.request_id = newRequestId,
                     !.role_justification =
                        IF existingRoles.role_justification \in {"", NULL}
                          THEN CopiedJustification
                          ELSE existingRoles.role_justification]
            IN IF fail = "insert" \/ InsertRoleSelectionFails(rows, newRoleSelections)
                 THEN rows
                 ELSE Append(rows, newRoleSelections)

\* EditRequestPage has its own copyExistingUserRoles: the same lookups, then
\* a delete of the new request's rows whose answer is not looked at, then the
\* insert
EditRequestPage_copyExistingUserRoles(rows, newRequestId, copyFromEmployeeId, fail) ==
  LET found == CompletedRequestsOf(copyFromEmployeeId) IN
  IF fail = "find" \/ found = {} THEN rows
  ELSE LET existing == SelectSeq(rows, LAMBDA row : row.request_id = MostRecent(found)) IN
       IF fail = "roles" \/ Len(existing) # 1 THEN rows
       ELSE LET existingRoles == existing[1]
                deleted == IF fail = "delete" THEN rows
                           ELSE DeleteByRequest(rows, newRequestId)
                newRoleSelections ==
                  [existingRoles EXCEPT
                     !.request_id = newRequestId,
                     !.role_justification =
                        IF existingRoles.role_justification \in {"", NULL}
                          THEN CopiedJustification
                          ELSE existingRoles.role_justification]
            IN IF fail = "insert" \/ InsertRoleSelectionFails(deleted, newRoleSelections)
                 THEN deleted
                 ELSE Append(deleted, newRoleSelections)

\* a navigation that ignores the area
RolePageOf_Generic(area) == "select"

\* where the create flow navigates for an area
RolePageOf(area) ==
  CASE area = "elm" -> "elm"
    [] area = "epm_data_warehouse" -> "epm"
    [] area = "hr_payroll" -> "hr"
    [] OTHER -> "select"

\* a catch that deletes the request the try block inserted
CatchAfterInsert_RollsBack(reqs, id) == [r \in DOMAIN reqs \ {id} |-> reqs[r]]

\* the catch of the two creates: console.error and a toast, no store call
CatchAfterInsert(reqs, id) == reqs

CreateFailures == {"none", "request", "area", "copy_details", "find", "roles", "insert"}

\* App.onSubmit
onSubmit(t, area, option, employeeId, copyUserEmployeeId, fail) ==
  /\ roles[t].page = "form"
  /\ nextRequestId <= MaxRequests
  /\ fail \in {"copy_details", "find", "roles", "insert"} => option = "copy"
  /\ LET id == nextRequestId IN
     IF fail = "request"
       THEN /\ roles' = [roles EXCEPT ![t].toast = "submit_failed"]
            /\ UNCHANGED storeVars
       ELSE
         /\ requests' =
              IF fail \in {"area", "copy_details"}
                THEN CatchAfterInsert((id :> RequestRow(employeeId)) @@ requests, id)
                ELSE (id :> RequestRow(employeeId)) @@ requests
         /\ nextRequestId' = id + 1
         /\ IF fail = "area"
              THEN /\ roles' = [roles EXCEPT ![t].toast = "submit_failed"]
                   /\ UNCHANGED <<security_areas, request_approvals, tick,
                                  role_selections, copy_user_details>>
              ELSE
                /\ tick' = [tick EXCEPT ![id] = @ + 1]
                /\ security_areas' = security_areas \cup {AreaRow(id, area, tick[id] + 1)}
                /\ request_approvals' =
                     request_approvals \cup ApprovalsOnAreaInsert(id, area, tick[id] + 1)
                /\ IF option = "copy" /\ fail = "copy_details"
                     THEN /\ roles' = [roles EXCEPT ![t].toast = "submit_failed"]
                          /\ UNCHANGED <<role_selections, copy_user_details>>
                     ELSE
                       /\ copy_user_details' =
                            IF option = "copy"
                              THEN Append(copy_user_details,
                                     [request_id |-> id,
                                      copy_user_employee_id |-> copyUserEmployeeId])
                              ELSE copy_user_details
                       /\ role_selections' =
                            IF option = "copy"
                              THEN copyExistingUserRoles(role_selections, id,
                                                         copyUserEmployeeId, fail)
                              ELSE role_selections
                       /\ roles' = [roles EXCEPT ![t] =
                            [page |-> IF option = "copy" THEN "success"
                                      ELSE RolePageOf(area),
                             requestId |-> id, toast |-> "submitted"]]
  /\ UNCHANGED <<testMode, details, edit, list>>
  /\ StoreAnswers(fail = "none")

\* App.handleProceedToRoleSelection
handleProceedToRoleSelection(t, area, employeeId, fail) ==
  /\ roles[t].page = "form"
  /\ nextRequestId <= MaxRequests
  /\ fail \in {"none", "request", "area"}
  /\ LET id == nextRequestId IN
     IF fail = "request"
       THEN /\ roles' = [roles EXCEPT ![t].toast = "create_failed"]
            /\ UNCHANGED storeVars
       ELSE
         /\ requests' =
              IF fail = "area"
                THEN CatchAfterInsert((id :> RequestRow(employeeId)) @@ requests, id)
                ELSE (id :> RequestRow(employeeId)) @@ requests
         /\ nextRequestId' = id + 1
         /\ UNCHANGED <<role_selections, copy_user_details>>
         /\ IF fail = "area"
              THEN /\ roles' = [roles EXCEPT ![t].toast = "create_failed"]
                   /\ UNCHANGED <<security_areas, request_approvals, tick>>
              ELSE
                /\ tick' = [tick EXCEPT ![id] = @ + 1]
                /\ security_areas' = security_areas \cup {AreaRow(id, area, tick[id] + 1)}
                /\ request_approvals' =
                     request_approvals \cup ApprovalsOnAreaInsert(id, area, tick[id] + 1)
                /\ roles' = [roles EXCEPT ![t] =
                     [page |-> RolePageOf(area), requestId |-> id, toast |-> "none"]]
  /\ UNCHANGED <<testMode, details, edit, list>>
  /\ StoreAnswers(fail = "none")

\* Header on the main page: the page resets test mode when it mounts
OpenMainForm(t) ==
  /\ TabIdle(t)
  /\ roles[t].page # "form"
  /\ testMode' = FALSE
  /\ details' = [details EXCEPT ![t] = DetailsClosed]
  /\ edit' = [edit EXCEPT ![t] = EditClosed]
  /\ list' = [list EXCEPT ![t] = ListClosed]
  /\ roles' = [roles EXCEPT ![t] = [page |-> "form", requestId |-> 0, toast |-> "none"]]
  /\ UNCHANGED storeVars
  /\ UNCHANGED faults

\* Header.toggleTestMode: the button is on the main page only
toggleTestMode(t) ==
  /\ roles[t].page = "form"
  /\ testMode' = ~testMode
  /\ UNCHANGED <<storeVars, pageVars>>
  /\ UNCHANGED faults


\* ------------------------------------------------------------------------
\* Role-selection pages: SelectRolesPage, ElmRoleSelectionPage,
\* EpmDwhRoleSelectionPage, HrPayrollRoleSelectionPage (onSubmit)
\* ------------------------------------------------------------------------
RolePages == {"select", "elm", "epm", "hr"}

\* hasSelectedRoles of a page: SelectRolesPage counts every boolean that is
\* true and every string that is not blank, the area pages their role
\* checkboxes
hasSelectedRoles(page, selection, justification) ==
  IF page = "select"
    THEN selection # "none" \/ justification \notin {"", " "}
    ELSE selection # "none"

\* a page that checks nothing
RoleValidation_None(page, selection, justification, supervisorApproval) == ""

\* the checks a page makes before it writes: "" when the input passes. The
\* form (handleSubmit) calls onSubmit only when the required justification
\* is not empty; the EPM page's onSubmit never looks at hasSelectedRoles
RoleValidation(page, selection, justification, supervisorApproval) ==
  IF justification = "" THEN "justification_required"
  ELSE CASE page = "select" ->
              IF ~hasSelectedRoles(page, selection, justification)
                THEN "select_at_least_one" ELSE ""
         [] page = "epm" ->
              IF ~supervisorApproval THEN "acknowledgment_required" ELSE ""
         [] OTHER ->
              IF ~supervisorApproval THEN "acknowledgment_required"
              ELSE IF ~hasSelectedRoles(page, selection, justification)
                THEN "select_at_least_one" ELSE ""

RoleData(page, requestId, selection, justification) ==
  [request_id |-> requestId, page |-> page, selection |-> selection,
   role_justification |-> justification]

\* the write as a plain insert
SaveRoleData_Insert(rows, roleData) == Append(rows, roleData)

\* the write of a role page: upsert with onConflict: 'request_id'
SaveRoleData(rows, roleData) == UpsertRoleSelection(rows, roleData)

saveSelections(t, selection, justification, supervisorApproval, ok) ==
  /\ roles[t].page \in RolePages
  /\ LET page == roles[t].page
         invalid == RoleValidation(page, selection, justification, supervisorApproval)
     IN IF invalid # ""
          THEN /\ roles' = [roles EXCEPT ![t].toast = invalid]
               /\ UNCHANGED role_selections
          ELSE IF ~ok \/ ~Live(roles[t].requestId)
            THEN /\ roles' = [roles EXCEPT ![t].toast = "save_failed"]
                 /\ UNCHANGED role_selections
            ELSE /\ role_selections' =
                      SaveRoleData(role_selections,
                        RoleData(page, roles[t].requestId, selection, justification))
                 /\ roles' = [roles EXCEPT ![t].page = "success", ![t].toast = "saved"]
  /\ UNCHANGED <<requests, nextRequestId, security_areas, request_approvals,
                 copy_user_details, tick, testMode, details, edit, list>>
  /\ StoreAnswers(ok \/ RoleValidation(roles[t].page, selection, justification,
                                      supervisorApproval) # "")

\* ------------------------------------------------------------------------
\* Signature page (/signature/:id/:approvalId): an approver decides a step
\* ------------------------------------------------------------------------
SignApprove(row) ==
  /\ row \in request_approvals
  /\ row.status = "pending"
  /\ request_approvals' =
       UpdateApprovals(request_approvals, {row}, "approved", "signed", "t_sign")
  /\ UNCHANGED <<requests, nextRequestId, security_areas, role_selections,
                 copy_user_details, tick, testMode, pageVars>>
  /\ UNCHANGED faults

SignDeny(row) ==
  /\ row \in request_approvals
  /\ row.status = "pending"
  /\ request_approvals' =
       UpdateApprovals(request_approvals, {row}, "denied", NULL, NULL)
  /\ UNCHANGED <<requests, nextRequestId, security_areas, role_selections,
                 copy_user_details, tick, testMode, pageVars>>
  /\ UNCHANGED faults

\* ------------------------------------------------------------------------
\* RequestDetailsPage
\* ------------------------------------------------------------------------
\* the page mounts for /requests/:id and starts fetchRequestDetails
OpenDetails(t, r) ==
  /\ TabIdle(t)
  /\ r < nextRequestId
  /\ details' = [details EXCEPT ![t] =
       [pc |-> "fetchRequest", id |-> r, request |-> NoRequest, approvals |-> <<>>,
        loading |-> TRUE, error |-> FALSE, toast |-> "none"]]
  /\ edit' = [edit EXCEPT ![t] = EditClosed]
  /\ roles' = [roles EXCEPT ![t] = RolesClosed]
  /\ list' = [list EXCEPT ![t] = ListClosed]
  /\ UNCHANGED <<storeVars, testMode>>
  /\ UNCHANGED faults

\* fetchRequestDetails, first read: the request (.single())
fetchRequest(t, ok) ==
  /\ details[t].pc = "fetchRequest"
  /\ details' = [details EXCEPT ![t] =
       IF ok /\ Live(@.id)
         THEN [@ EXCEPT !.request = [status |-> requests[details[t].id].status],
                        !.pc = "fetchApprovals"]
         ELSE [@ EXCEPT !.error = TRUE, !.loading = FALSE, !.pc = "idle"]]
  /\ UNCHANGED <<storeVars, testMode, edit, roles, list>>
  /\ StoreAnswers(ok)

\* fetchRequestDetails, last read: the approvals, ordered by created_at and
\* then sorted
fetchApprovals(t, ok, approvalsData) ==
  /\ details[t].pc = "fetchApprovals"
  /\ approvalsData \in OrdersByCreatedAt(ApprovalsOf(details[t].id))
  /\ details' = [details EXCEPT ![t] =
       IF ok
         THEN [@ EXCEPT !.approvals = sortedApprovals(approvalsData),
                        !.loading = FALSE, !.pc = "idle"]
         ELSE [@ EXCEPT !.error = TRUE, !.loading = FALSE, !.pc = "idle"]]
  /\ UNCHANGED <<storeVars, testMode, edit, roles, list>>
  /\ StoreAnswers(ok)

\* the pending rows of the list the page holds
pendingApprovals(approvals) ==
  SelectSeq(approvals, LAMBDA approval : approval.status = "pending")

IdsOf(rowSeq) == {RowId(rowSeq[i]) : i \in 1..Len(rowSeq)}

\* handleAutoApprove (the button is there in test mode only): with no pending
\* row in the page's list it only says so; else it updates the first n rows
\* of that list by id; the (n+1)st update, when there is one, is rejected
handleAutoApprove(t, n) ==
  /\ Interactive(details[t])
  /\ testMode
  /\ LET pending == pendingApprovals(details[t].approvals) IN
     /\ n \in 0..Len(pending)
     /\ request_approvals' =
          UpdateApprovals(request_approvals,
            {row \in request_approvals : RowId(row) \in IdsOf(SubSeq(pending, 1, n))},
            "approved", TestSignature, "t_auto")
     /\ details' = [details EXCEPT ![t] =
          IF Len(pending) = 0
            THEN [@ EXCEPT !.toast = "no_pending"]
            ELSE IF n = Len(pending)
              THEN [@ EXCEPT !.toast = "auto_approved", !.loading = TRUE,
                             !.error = FALSE, !.pc = "fetchRequest"]
              ELSE [@ EXCEPT !.toast = "auto_approve_failed"]]
  /\ UNCHANGED <<requests, nextRequestId, security_areas, role_selections,
                 copy_user_details, tick, testMode, edit, roles, list>>
  /\ StoreAnswers(n >= Len(pendingApprovals(details[t].approvals)))

\* no trimming
Trim_Identity(name) == name

\* completerName.trim()
Trim(name) == IF name = " " THEN "" ELSE name

\* the update handleCompleteRequest sends: .eq('id', id)
CompleteUpdate(reqs, id, name) ==
  IF id \in DOMAIN reqs
    THEN [reqs EXCEPT ![id].status = "completed",
                      ![id].completed_by = Trim(name),
                      ![id].completed_at = "t_complete"]
    ELSE reqs

\* handleCompleteRequest; the button is rendered when canCompleteRequest
handleCompleteRequest(t, completerName, ok) ==
  /\ Interactive(details[t])
  /\ canCompleteRequest(details[t])
  /\ IF Trim(completerName) = ""
       THEN /\ details' = [details EXCEPT ![t].toast = "name_required"]
            /\ UNCHANGED requests
       ELSE IF ~ok
         THEN /\ details' = [details EXCEPT ![t].toast = "complete_failed"]
              /\ UNCHANGED requests
         ELSE /\ requests' = CompleteUpdate(requests, details[t].id, completerName)
              /\ details' = [details EXCEPT ![t] =
                   [@ EXCEPT !.toast = "completed", !.loading = TRUE,
                             !.error = FALSE, !.pc = "fetchRequest"]]
  /\ UNCHANGED <<nextRequestId, security_areas, request_approvals, role_selections,
                 copy_user_details, tick, testMode, edit, roles, list>>
  /\ StoreAnswers(ok \/ Trim(completerName) = "")


\* ------------------------------------------------------------------------
\* EditRequestPage
\* ------------------------------------------------------------------------
\* security_areas[0] of the nested select, which names no order
FirstAreas(r) ==
  IF AreasOf(r) = {} THEN {NULL} ELSE {row.area_type : row \in AreasOf(r)}

HasCopyDetails(r) ==
  \E i \in 1..Len(copy_user_details) : copy_user_details[i].request_id = r

\* the page mounts for /requests/:id/edit and runs fetchRequestData; the
\* effect on the selected area leaves for the ELM page when the area is elm
OpenEdit(t, r, ok, primarySecurityArea) ==
  /\ TabIdle(t)
  /\ r < nextRequestId
  /\ primarySecurityArea \in FirstAreas(r)
  /\ details' = [details EXCEPT ![t] =
       IF ok /\ Live(r) /\ requests[r].status # "pending"
         THEN [pc |-> "fetchRequest", id |-> r, request |-> NoRequest,
               approvals |-> <<>>, loading |-> TRUE, error |-> FALSE,
               toast |-> "cannot_be_edited"]
         ELSE DetailsClosed]
  /\ list' = [list EXCEPT ![t] =
       IF ~ok \/ ~Live(r) THEN [ListOpening EXCEPT !.toast = "load_failed"]
       ELSE ListClosed]
  /\ edit' = [edit EXCEPT ![t] =
       IF ok /\ Live(r) /\ requests[r].status = "pending"
            /\ primarySecurityArea # "elm"
         THEN [pc |-> "form", id |-> r, existingArea |-> primarySecurityArea,
               securityArea |-> primarySecurityArea,
               selectedOption |-> IF HasCopyDetails(r) THEN "copy" ELSE "select",
               toast |-> "none"]
         ELSE EditClosed]
  /\ roles' = [roles EXCEPT ![t] =
       IF ok /\ Live(r) /\ requests[r].status = "pending"
            /\ primarySecurityArea = "elm"
         THEN [page |-> "elm", requestId |-> r, toast |-> "none"]
         ELSE RolesClosed]
  /\ UNCHANGED <<storeVars, testMode>>
  /\ StoreAnswers(ok)

\* the user picks elm in the form: the effect navigates to the ELM page
selectElm(t) ==
  /\ edit[t].pc = "form"
  /\ roles' = [roles EXCEPT ![t] =
       [page |-> "elm", requestId |-> edit[t].id, toast |-> "none"]]
  /\ edit' = [edit EXCEPT ![t] = EditClosed]
  /\ UNCHANGED <<storeVars, testMode, details, list>>
  /\ UNCHANGED faults

\* the catch of onSubmit: the page stays, with the data it loaded
EditFailed(page) == [page EXCEPT !.pc = "form", !.toast = "update_failed"]

\* the update sending the form's default status along with its fields
UpdateRequestFields_ResetStatus(reqs, id, employeeId) ==
  IF id \in DOMAIN reqs
    THEN [reqs EXCEPT ![id].employee_id = employeeId, ![id].status = "pending"]
    ELSE reqs

UpdateRequestFields(reqs, id, employeeId) ==
  IF id \in DOMAIN reqs THEN [reqs EXCEPT ![id].employee_id = employeeId] ELSE reqs

\* onSubmit up to the update of the main request
editSubmit(t, securityArea, option, employeeId, ok) ==
  /\ edit[t].pc = "form"
  /\ securityArea # "elm"
  /\ securityArea = NULL => edit[t].securityArea = NULL
  /\ IF securityArea = NULL
       THEN UNCHANGED <<requests, edit>>
       ELSE IF ~ok
         THEN /\ edit' = [edit EXCEPT ![t] = EditFailed(@)]
              /\ UNCHANGED requests
         ELSE /\ requests' = UpdateRequestFields(requests, edit[t].id, employeeId)
              /\ edit' = [edit EXCEPT ![t] =
                   [@ EXCEPT !.pc = "area", !.securityArea = securityArea,
                             !.selectedOption = option, !.toast = "none"]]
  /\ UNCHANGED <<nextRequestId, security_areas, request_approvals, role_selections,
                 copy_user_details, tick, testMode, details, roles, list>>
  /\ StoreAnswers(ok \/ securityArea = NULL)

\* the page taking every submitted area for a new one
SameArea_Never(page) == FALSE

\* the page taking every submitted area for the stored one
SameArea_Always(page) == TRUE

SameArea(page) ==
  page.existingArea # NULL /\ page.existingArea = page.securityArea

\* the security area: updated in place when its type is the loaded one,
\* else every area row of the request is deleted
editArea(t, ok) ==
  /\ edit[t].pc = "area"
  /\ IF ~ok
       THEN /\ edit' = [edit EXCEPT ![t] = EditFailed(@)]
            /\ UNCHANGED security_areas
       ELSE IF SameArea(edit[t])
         THEN /\ edit' = [edit EXCEPT ![t].pc = "deleteCopyDetails"]
              /\ UNCHANGED security_areas
         ELSE /\ security_areas' = security_areas \ AreasOf(edit[t].id)
              /\ edit' = [edit EXCEPT ![t].pc = "deleteApprovals"]
  /\ UNCHANGED <<requests, nextRequestId, request_approvals, role_selections,
                 copy_user_details, tick, testMode, details, roles, list>>
  /\ StoreAnswers(ok)

\* the replace without its delete of the area-specific approvals
DeleteAreaApprovals_None(rows, id) == rows

\* .delete().eq('request_id', id).in('step', [the three area-specific steps])
DeleteAreaApprovals(rows, id) ==
  {row \in rows : ~(row.request_id = id /\ row.step \in AreaSpecificSteps)}

editDeleteApprovals(t, ok) ==
  /\ edit[t].pc = "deleteApprovals"
  /\ IF ~ok
       THEN /\ edit' = [edit EXCEPT ![t] = EditFailed(@)]
            /\ UNCHANGED request_approvals
       ELSE /\ request_approvals' = DeleteAreaApprovals(request_approvals, edit[t].id)
            /\ edit' = [edit EXCEPT ![t].pc = "insertArea"]
  /\ UNCHANGED <<requests, nextRequestId, security_areas, role_selections,
                 copy_user_details, tick, testMode, details, roles, list>>
  /\ StoreAnswers(ok)

\* the insert of the new area, which creates its approval rows; the store
\* rejects a row whose request is gone
editInsertArea(t, ok) ==
  /\ edit[t].pc = "insertArea"
  /\ LET id == edit[t].id IN
     IF ~ok \/ ~Live(id)
       THEN /\ edit' = [edit EXCEPT ![t] = EditFailed(@)]
            /\ UNCHANGED <<security_areas, request_approvals, tick>>
       ELSE /\ tick[id] < MaxTick
            /\ tick' = [tick EXCEPT ![id] = @ + 1]
            /\ security_areas' =
                 security_areas \cup {AreaRow(id, edit[t].securityArea, tick[id] + 1)}
            /\ request_approvals' =
                 request_approvals
                   \cup ApprovalsOnAreaInsert(id, edit[t].securityArea, tick[id] + 1)
            /\ edit' = [edit EXCEPT ![t].pc = "deleteCopyDetails"]
  /\ UNCHANGED <<requests, nextRequestId, role_selections, copy_user_details,
                 testMode, details, roles, list>>
  /\ StoreAnswers(ok)

\* the delete of copy_user_details, whose error nobody reads
editDeleteCopyDetails(t, ok) ==
  /\ edit[t].pc = "deleteCopyDetails"
  /\ copy_user_details' =
       IF ok THEN DeleteByRequest(copy_user_details, edit[t].id) ELSE copy_user_details
  /\ edit' = [edit EXCEPT ![t].pc =
       IF edit[t].selectedOption = "copy" THEN "insertCopyDetails"
       ELSE "deleteRoleSelections"]
  /\ UNCHANGED <<requests, nextRequestId, security_areas, request_approvals,
                 role_selections, tick, testMode, details, roles, list>>
  /\ StoreAnswers(ok)

editInsertCopyDetails(t, copyUserEmployeeId, ok) ==
  /\ edit[t].pc = "insertCopyDetails"
  /\ IF ~ok \/ ~Live(edit[t].id)
       THEN /\ edit' = [edit EXCEPT ![t] = EditFailed(@)]
            /\ UNCHANGED copy_user_details
       ELSE /\ copy_user_details' =
                 Append(copy_user_details,
                   [request_id |-> edit[t].id,
                    copy_user_employee_id |-> copyUserEmployeeId])
            /\ edit' = [edit EXCEPT ![t].pc = "deleteRoleSelections"]
  /\ UNCHANGED <<requests, nextRequestId, security_areas, request_approvals,
                 role_selections, tick, testMode, details, roles, list>>
  /\ StoreAnswers(ok)

\* the delete of the role selections, whose error nobody reads
editDeleteRoleSelections(t, ok) ==
  /\ edit[t].pc = "deleteRoleSelections"
  /\ role_selections' =
       IF ok THEN DeleteByRequest(role_selections, edit[t].id) ELSE role_selections
  /\ edit' = [edit EXCEPT ![t].pc = "resetApprovals"]
  /\ UNCHANGED <<requests, nextRequestId, security_areas, request_approvals,
                 copy_user_details, tick, testMode, details, roles, list>>
  /\ StoreAnswers(ok)

\* the reset without .neq('step', 'user_signature')
ResetApprovals_All(rows, id) ==
  UpdateApprovals(rows, {row \in rows : row.request_id = id}, "pending", NULL, NULL)

\* .update({pending, null, null}).eq('request_id', id).neq('step', 'user_signature')
ResetApprovals(rows, id) ==
  UpdateApprovals(rows,
    {row \in rows : row.request_id = id /\ row.step # "user_signature"},
    "pending", NULL, NULL)

\* the reset of the approvals, then the navigation that ends onSubmit
editResetApprovals(t, ok) ==
  /\ edit[t].pc = "resetApprovals"
  /\ IF ~ok
       THEN /\ edit' = [edit EXCEPT ![t] = EditFailed(@)]
            /\ UNCHANGED <<request_approvals, roles, list>>
       ELSE /\ request_approvals' = ResetApprovals(request_approvals, edit[t].id)
            /\ edit' = [edit EXCEPT ![t] = EditClosed]
            /\ IF edit[t].selectedOption = "copy"
                 THEN /\ list' = [list EXCEPT ![t] =
                           [ListOpening EXCEPT !.toast = "updated"]]
                      /\ UNCHANGED roles
                 ELSE /\ roles' = [roles EXCEPT ![t] =
                           [page |-> "select", requestId |-> edit[t].id,
                            toast |-> "updated"]]
                      /\ UNCHANGED list
  /\ UNCHANGED <<requests, nextRequestId, security_areas, role_selections,
                 copy_user_details, tick, testMode, details>>
  /\ StoreAnswers(ok)


\* ------------------------------------------------------------------------
\* RequestListPage
\* ------------------------------------------------------------------------
OpenList(t) ==
  /\ TabIdle(t)
  /\ list[t].pc = "closed"
  /\ list' = [list EXCEPT ![t] = ListOpening]
  /\ details' = [details EXCEPT ![t] = DetailsClosed]
  /\ edit' = [edit EXCEPT ![t] = EditClosed]
  /\ roles' = [roles EXCEPT ![t] = RolesClosed]
  /\ UNCHANGED <<storeVars, testMode>>
  /\ UNCHANGED faults

ApprovalSummary(row) == [id |-> RowId(row), step |-> row.step, status |-> row.status]

SummaryOf(rowSeq) == [i \in 1..Len(rowSeq) |-> ApprovalSummary(rowSeq[i])]

\* what the nested select may return: per request its approval rows, in any
\* order (the select names none)
RECURSIVE ListResultsOver(_)
ListResultsOver(D) ==
  IF D = {} THEN {<<>>}
  ELSE LET r == CHOOSE q \in D : TRUE
       IN {(r :> o) @@ f : o \in Orders(ApprovalsOf(r)), f \in ListResultsOver(D \ {r})}

ListResults == ListResultsOver(DOMAIN requests)

\* fetchRequests
fetchRequests(t, ok, data) ==
  /\ list[t].pc = "fetching"
  /\ data \in ListResults
  /\ list' = [list EXCEPT ![t] =
       IF ok
         THEN [@ EXCEPT !.pc = "idle",
                 !.requests = [r \in DOMAIN data |->
                    [status |-> requests[r].status,
                     request_approvals |-> SummaryOf(data[r])]]]
         ELSE [@ EXCEPT !.pc = "idle", !.toast = "load_failed"]]
  /\ UNCHANGED <<storeVars, testMode, details, edit, roles>>
  /\ StoreAnswers(ok)

\* request.request_approvals.find(approval => approval.status === 'pending')
getNextPendingApproval(request) ==
  LET rows == request.request_approvals
      hits == {i \in 1..Len(rows) : rows[i].status = "pending"}
  IN IF hits = {} THEN NULL
     ELSE rows[CHOOSE i \in hits : \A j \in hits : i <= j].step

\* the cascade of the store from a request to its dependents
CascadeApprovals(rows, r) == {row \in rows : row.request_id # r}

\* a delete without its filter
DeleteRequestRow_All(reqs, r) == [q \in {} |-> reqs[q]]

\* .from('security_role_requests').delete().eq('id', requestToDelete.id)
DeleteRequestRow(reqs, r) == [q \in DOMAIN reqs \ {r} |-> reqs[q]]

\* handleDeleteConfirm
handleDeleteConfirm(t, r, ok) ==
  /\ list[t].pc = "idle"
  /\ r \in DOMAIN list[t].requests
  /\ IF ~ok
       THEN /\ list' = [list EXCEPT ![t].toast = "delete_failed"]
            /\ UNCHANGED storeVars
       ELSE /\ requests' = DeleteRequestRow(requests, r)
            /\ security_areas' = {row \in security_areas : row.request_id # r}
            /\ request_approvals' = CascadeApprovals(request_approvals, r)
            /\ role_selections' = DeleteByRequest(role_selections, r)
            /\ copy_user_details' = DeleteByRequest(copy_user_details, r)
            /\ list' = [list EXCEPT ![t] =
                 [@ EXCEPT !.toast = "deleted",
                    !.requests = [q \in DOMAIN list[t].requests \ {r} |->
                                    list[t].requests[q]]]]
            /\ UNCHANGED <<nextRequestId, tick>>
  /\ UNCHANGED <<testMode, details, edit, roles>>
  /\ StoreAnswers(ok)


\* ------------------------------------------------------------------------
\* The steps of each page, over the inputs a run draws from
\* ------------------------------------------------------------------------
MainFormStep(t, areas, options, employees, failures) ==
  \/ OpenMainForm(t)
  \/ toggleTestMode(t)
  \/ \E area \in areas, option \in options, e \in employees, c \in employees,
        fail \in failures :
       onSubmit(t, area, option, e, c, fail)
  \/ \E area \in areas, e \in employees, fail \in failures :
       handleProceedToRoleSelection(t, area, e, fail)

RolePageStep(t, outcomes) ==
  \E selection \in Selections, j \in Justifications, ack \in BOOLEAN, ok \in outcomes :
    saveSelections(t, selection, j, ack, ok)

ApproverStep ==
  \E row \in request_approvals : SignApprove(row) \/ SignDeny(row)

DetailsStep(t, names, outcomes) ==
  \/ \E r \in RequestIds : OpenDetails(t, r)
  \/ \E ok \in outcomes : fetchRequest(t, ok)
  \/ \E ok \in outcomes :
       \E approvalsData \in OrdersByCreatedAt(ApprovalsOf(details[t].id)) :
         fetchApprovals(t, ok, approvalsData)
  \/ \E n \in 0..(MaxTick * 4) : handleAutoApprove(t, n)
  \/ \E name \in names, ok \in outcomes : handleCompleteRequest(t, name, ok)

EditStep(t, areas, options, employees, outcomes) ==
  \/ \E r \in RequestIds, ok \in outcomes, a \in AreaTypes \cup {NULL} : OpenEdit(t, r, ok, a)
  \/ selectElm(t)
  \/ \E a \in areas \cup {NULL}, option \in options, e \in employees, ok \in outcomes :
       editSubmit(t, a, option, e, ok)
  \/ \E ok \in outcomes : editArea(t, ok)
  \/ \E ok \in outcomes : editDeleteApprovals(t, ok)
  \/ \E ok \in outcomes : editInsertArea(t, ok)
  \/ \E ok \in outcomes : editDeleteCopyDetails(t, ok)
  \/ \E c \in employees, ok \in outcomes : editInsertCopyDetails(t, c, ok)
  \/ \E ok \in outcomes : editDeleteRoleSelections(t, ok)
  \/ \E ok \in outcomes : editResetApprovals(t, ok)

ListStep(t, outcomes) ==
  \/ OpenList(t)
  \/ \E ok \in outcomes, data \in ListResults : fetchRequests(t, ok, data)
  \/ \E r \in RequestIds, ok \in outcomes : handleDeleteConfirm(t, r, ok)

\* ------------------------------------------------------------------------
\* The whole program: every page in every tab
\* ------------------------------------------------------------------------
Next ==
  \/ \E t \in Tabs : MainFormStep(t, AreaTypes, {"copy", "select"}, EmployeeIds, CreateFailures)
  \/ \E t \in Tabs : RolePageStep(t, BOOLEAN)
  \/ ApproverStep
  \/ \E t \in Tabs : DetailsStep(t, CompleterNames, BOOLEAN)
  \/ \E t \in Tabs : EditStep(t, AreaTypes, {"copy", "select"}, EmployeeIds, BOOLEAN)
  \/ \E t \in Tabs : ListStep(t, BOOLEAN)

Spec == Init /\ [][Next]_vars

\* ------------------------------------------------------------------------
\* The details page over any approval rows of a request: the store holds one
\* request and up to MaxRows approval rows of it, the page loads them
\* ------------------------------------------------------------------------
StoredSteps == Steps \cup {OtherStep}

\* a row as the signature page leaves it
DecidedRow(r, st, t, status) ==
  [request_id |-> r, step |-> st, created_at |-> t, status |-> status,
   signature_data |-> IF status = "approved" THEN "signed" ELSE NULL,
   approved_at |-> IF status = "approved" THEN "t_sign" ELSE NULL]

RowKeys == StoredSteps \X (1..MaxTick)

RowSets ==
  UNION {[K -> ApprovalStatuses] :
           K \in {S \in SUBSET RowKeys : Cardinality(S) <= MaxRows}}

InitView ==
  /\ \E status \in {"pending", "completed"} :
       requests = (1 :> [RequestRow("E1") EXCEPT !.status = status])
  /\ nextRequestId = 2
  /\ security_areas = {}
  /\ \E f \in RowSets :
       request_approvals = {DecidedRow(1, k[1], k[2], f[k]) : k \in DOMAIN f}
  /\ role_selections = <<>>
  /\ copy_user_details = <<>>
  /\ tick = [r \in RequestIds |-> IF r = 1 THEN MaxTick ELSE 0]
  /\ testMode = FALSE
  /\ details = [t \in Tabs |-> IF t = "t1" THEN
       [pc |-> "fetchRequest", id |-> 1, request |-> NoRequest, approvals |-> <<>>,
        loading |-> TRUE, error |-> FALSE, toast |-> "none"] ELSE DetailsClosed]
  /\ edit = [t \in Tabs |-> EditClosed]
  /\ roles = [t \in Tabs |-> RolesClosed]
  /\ list = [t \in Tabs |-> ListClosed]
  /\ faults = 0

NextView ==
  \/ \E ok \in BOOLEAN : fetchRequest("t1", ok)
  \/ \E ok \in BOOLEAN :
       \E approvalsData \in OrdersByCreatedAt(ApprovalsOf(details["t1"].id)) :
         fetchApprovals("t1", ok, approvalsData)

SpecView == InitView /\ [][NextView]_vars

\* ------------------------------------------------------------------------
\* One request between sessions: tab t1 creates it, watches its details page,
\* auto-approves and completes; tab t2 edits it and lists and deletes; the
\* approvers sign
\* ------------------------------------------------------------------------
GateAreas == {"epm_data_warehouse"}

NextGate ==
  \/ OpenMainForm("t1")
  \/ \E area \in GateAreas, fail \in {"none", "request", "area"} :
       nextRequestId = 1 /\ onSubmit("t1", area, "select", "E1", "E1", fail)
  \/ ApproverStep
  \/ \E r \in RequestIds : OpenDetails("t1", r)
  \/ \E ok \in BOOLEAN : fetchRequest("t1", ok)
  \/ \E ok \in BOOLEAN :
       \E approvalsData \in OrdersByCreatedAt(ApprovalsOf(details["t1"].id)) :
         fetchApprovals("t1", ok, approvalsData)
  \/ \E name \in CompleterNames, ok \in BOOLEAN :
       handleCompleteRequest("t1", name, ok)
  \/ \E r \in RequestIds, ok \in BOOLEAN, a \in AreaTypes \cup {NULL} :
       OpenEdit("t2", r, ok, a)
  \/ \E a \in GateAreas, ok \in BOOLEAN : editSubmit("t2", a, "select", "E2", ok)
  \/ \E ok \in BOOLEAN : editArea("t2", ok)
  \/ \E ok \in BOOLEAN : editDeleteCopyDetails("t2", ok)
  \/ \E ok \in BOOLEAN : editDeleteRoleSelections("t2", ok)
  \/ \E ok \in BOOLEAN : editResetApprovals("t2", ok)

SpecGate == Init /\ [][NextGate]_vars

\* ------------------------------------------------------------------------
\* Every operation that writes a request row: create, edit, auto-approve and
\* complete in test mode, delete from the list
\* ------------------------------------------------------------------------
NextStatus ==
  \/ OpenMainForm("t1")
  \/ toggleTestMode("t1")
  \/ \E area \in GateAreas, fail \in {"none", "request", "area"} :
       nextRequestId = 1 /\ onSubmit("t1", area, "select", "E1", "E1", fail)
  \/ \E area \in GateAreas, fail \in {"none", "request", "area"} :
       nextRequestId = 1 /\ handleProceedToRoleSelection("t1", area, "E1", fail)
  \/ \E r \in RequestIds : OpenDetails("t1", r)
  \/ \E ok \in BOOLEAN : fetchRequest("t1", ok)
  \/ \E ok \in BOOLEAN :
       \E approvalsData \in OrdersByCreatedAt(ApprovalsOf(details["t1"].id)) :
         fetchApprovals("t1", ok, approvalsData)
  \/ \E n \in 0..(MaxTick * 4) : handleAutoApprove("t1", n)
  \/ \E name \in CompleterNames, ok \in BOOLEAN :
       handleCompleteRequest("t1", name, ok)
  \/ \E r \in RequestIds, ok \in BOOLEAN, a \in AreaTypes \cup {NULL} :
       OpenEdit("t2", r, ok, a)
  \/ \E a \in GateAreas, ok \in BOOLEAN : editSubmit("t2", a, "select", "E2", ok)
  \/ \E ok \in BOOLEAN : editArea("t2", ok)
  \/ \E ok \in BOOLEAN : editDeleteCopyDetails("t2", ok)
  \/ \E ok \in BOOLEAN : editDeleteRoleSelections("t2", ok)
  \/ \E ok \in BOOLEAN : editResetApprovals("t2", ok)
  \/ ListStep("t2", BOOLEAN)

SpecStatus == Init /\ [][NextStatus]_vars

\* ------------------------------------------------------------------------
\* Role selections: request 1 of employee E1 is completed and has its role
\* selection; tab t1 creates a request (copying or selecting) and saves roles,
\* tab t2 edits it and saves roles
\* ------------------------------------------------------------------------
InitRoles ==
  /\ requests = (1 :> [RequestRow("E1") EXCEPT !.status = "completed",
                         !.completed_by = "Ann", !.completed_at = "t_complete"])
  /\ nextRequestId = 2
  /\ security_areas = {AreaRow(1, "epm_data_warehouse", 1)}
  /\ request_approvals =
       {DecidedRow(1, st, 1, "approved") : st \in TriggerSteps("epm_data_warehouse")}
  /\ role_selections = <<RoleData("epm", 1, "none", "")>>
  /\ copy_user_details = <<>>
  /\ tick = [r \in RequestIds |-> IF r = 1 THEN 1 ELSE 0]
  /\ testMode = FALSE
  /\ details = [t \in Tabs |-> DetailsClosed]
  /\ edit = [t \in Tabs |-> EditClosed]
  /\ roles = [t \in Tabs |-> RolesClosed]
  /\ list = [t \in Tabs |-> ListClosed]
  /\ faults = 0

NextRoles ==
  \/ OpenMainForm("t1")
  \/ \E area \in AreaTypes, option \in {"copy", "select"}, c \in EmployeeIds,
        fail \in CreateFailures :
       onSubmit("t1", area, option, "E2", c, fail)
  \/ \E area \in AreaTypes, fail \in CreateFailures :
       handleProceedToRoleSelection("t1", area, "E2", fail)
  \/ RolePageStep("t1", BOOLEAN)
  \/ EditStep("t2", AreaTypes, {"copy", "select"}, {"E2"}, BOOLEAN)
  \/ RolePageStep("t2", BOOLEAN)

SpecRoles == InitRoles /\ [][NextRoles]_vars

\* ------------------------------------------------------------------------
\* Editing: request 1 (hr_payroll) has decided approval rows and is left
\* alone; tab t1 creates request 2, the approvers decide the rows it was
\* created with, tab t2 edits it, changing its area or not
\* ------------------------------------------------------------------------
EditAreas == {"accounting_procurement", "hr_payroll", "epm_data_warehouse"}

InitEdit ==
  /\ requests = (1 :> RequestRow("E1"))
  /\ nextRequestId = 2
  /\ security_areas = {AreaRow(1, "hr_payroll", 1)}
  /\ request_approvals =
       {DecidedRow(1, "user_signature", 1, "approved"),
        DecidedRow(1, "supervisor_approval", 1, "approved"),
        DecidedRow(1, "hr_director_approval", 1, "denied"),
        DecidedRow(1, "security_admin_approval", 1, "pending")}
  /\ role_selections = <<>>
  /\ copy_user_details = <<>>
  /\ tick = [r \in RequestIds |-> IF r = 1 THEN 1 ELSE 0]
  /\ testMode = FALSE
  /\ details = [t \in Tabs |-> DetailsClosed]
  /\ edit = [t \in Tabs |-> EditClosed]
  /\ roles = [t \in Tabs |-> RolesClosed]
  /\ list = [t \in Tabs |-> ListClosed]
  /\ faults = 0

NextEdit ==
  \/ OpenMainForm("t1")
  \/ \E area \in EditAreas, fail \in {"none", "request", "area"} :
       onSubmit("t1", area, "select", "E2", "E2", fail)
  \/ \E row \in request_approvals :
       row.request_id # 1 /\ row.created_at = 1 /\ (SignApprove(row) \/ SignDeny(row))
  \/ \E r \in RequestIds \ {1}, ok \in BOOLEAN, a \in AreaTypes \cup {NULL} :
       OpenEdit("t2", r, ok, a)
  \/ selectElm("t2")
  \/ \E a \in EditAreas \cup {NULL}, option \in {"copy", "select"}, ok \in BOOLEAN :
       editSubmit("t2", a, option, "E2", ok)
  \/ \E ok \in BOOLEAN : editArea("t2", ok)
  \/ \E ok \in BOOLEAN : editDeleteApprovals("t2", ok)
  \/ \E ok \in BOOLEAN : editInsertArea("t2", ok)
  \/ \E ok \in BOOLEAN : editDeleteCopyDetails("t2", ok)
  \/ \E ok \in BOOLEAN : editInsertCopyDetails("t2", "E1", ok)
  \/ \E ok \in BOOLEAN : editDeleteRoleSelections("t2", ok)
  \/ \E ok \in BOOLEAN : editResetApprovals("t2", ok)

SpecEdit == InitEdit /\ [][NextEdit]_vars

\* ------------------------------------------------------------------------
\* The request list: tab t1 creates a request, the approvers decide its rows,
\* tab t2 lists the requests and deletes
\* ------------------------------------------------------------------------
NextList ==
  \/ OpenMainForm("t1")
  \/ \E area \in GateAreas, fail \in {"none", "request", "area"} :
       nextRequestId = 1 /\ onSubmit("t1", area, "select", "E1", "E1", fail)
  \/ ApproverStep
  \/ ListStep("t2", BOOLEAN)

SpecList == Init /\ [][NextList]_vars

\* ------------------------------------------------------------------------
\* Properties of completion and of the request status (SpecGate, SpecStatus)
\* ------------------------------------------------------------------------
FullyApproved(rows) == rows # {} /\ \A row \in rows : row.status = "approved"

\* C1: under every interleaving of page loads, approvals, edits and the
\* complete action, a request's status becomes completed only in a step taken
\* while the store holds at least one approval row of the request and every
\* such row is approved: the handler checks the gate when it runs
C1_CompleteRechecksGate ==
  [][\A r \in DOMAIN requests \cap DOMAIN requests' :
       (requests[r].status # "completed" /\ requests'[r].status = "completed")
         => FullyApproved(ApprovalsOf(r))]_vars

\* a step of the edit page's onSubmit in tab t that changes the store
EditWrite(t) ==
  /\ edit[t].pc # "closed"
  /\ edit'[t] # edit[t]
  /\ storeVars' # storeVars

\* C4: under every interleaving of the edit page's load, a completion by
\* another session and the edit submission, no write of the edit (request
\* update, area replace, role-selection delete, approval reset) changes the
\* store while the status of the request is not pending
C4_EditOnlyWhilePending ==
  [][\A t \in Tabs :
       EditWrite(t) => Live(edit[t].id) /\ requests[edit[t].id].status = "pending"]_vars

\* C5: over create, edit, auto-approve, complete and delete the status of a
\* request changes only from pending to completed, never leaves completed
\* and is never approved or rejected: it is pending or completed
C5_StatusOnlyCompletes ==
  [][/\ \A r \in DOMAIN requests' : requests'[r].status \in {"pending", "completed"}
     /\ \A r \in DOMAIN requests \cap DOMAIN requests' :
          requests'[r].status # requests[r].status
            => requests[r].status = "pending" /\ requests'[r].status = "completed"]_vars

\* an edit submitted from a page loaded before the completion has written the
\* completed request and is about to reset its approvals
C5_Witness ==
  /\ Live(1)
  /\ requests[1].status = "completed"
  /\ requests[1].employee_id = "E2"
  /\ edit["t2"].pc = "resetApprovals"

\* ------------------------------------------------------------------------
\* Properties of the loaded details page (SpecView)
\* ------------------------------------------------------------------------
\* C2: for the approval rows the page loaded, allApprovalsApproved is false
\* when the request has no row, false when a row is pending or denied, and
\* true exactly when there is at least one row and every row is approved
C2_AllApprovalsApproved ==
  \A t \in Tabs : Interactive(details[t]) =>
    LET rows == ApprovalsOf(details[t].id)
        flag == allApprovalsApproved(details[t].approvals)
    IN /\ rows = {} => ~flag
       /\ (\E row \in rows : row.status \in {"pending", "denied"}) => ~flag
       /\ flag <=> FullyApproved(rows)

\* the page loaded two or more rows, all approved, and the flag is up
C2_Witness ==
  /\ Interactive(details["t1"])
  /\ Cardinality(ApprovalsOf(1)) >= 2
  /\ allApprovalsApproved(details["t1"].approvals)

\* C3: canCompleteRequest is false whenever the request is completed, whatever
\* its approval rows are, and in every state equals "fully approved and the
\* status is not completed"
C3_CanComplete ==
  \A t \in Tabs : Interactive(details[t]) =>
    LET rows == ApprovalsOf(details[t].id)
        status == requests[details[t].id].status
        gate == canCompleteRequest(details[t])
    IN /\ status = "completed" => ~gate
       /\ gate <=> (FullyApproved(rows) /\ status # "completed")

\* the page loaded a completed request whose rows are all approved
C3_Witness ==
  /\ Interactive(details["t1"])
  /\ requests[1].status = "completed"
  /\ FullyApproved(ApprovalsOf(1))
  /\ ~canCompleteRequest(details["t1"])

\* the canonical rank of a step
Rank(step) ==
  CASE step = "user_signature" -> 1
    [] step = "supervisor_approval" -> 2
    [] step = "security_admin_approval" -> 4
    [] OTHER -> 3

\* C10: the approval list of the page holds the rows of the request ordered by
\* rank, user_signature (1) < supervisor_approval (2) < area-specific or unknown
\* step (3) < security_admin_approval (4), rows of one rank by created_at
\* ascending; so nothing but security_admin_approval follows a
\* security_admin_approval row, whatever order the store returned
C10_ApprovalOrder ==
  \A t \in Tabs : Interactive(details[t]) =>
    LET a == details[t].approvals IN
    /\ Len(a) = Cardinality(ApprovalsOf(details[t].id))
    /\ {a[i] : i \in 1..Len(a)} = ApprovalsOf(details[t].id)
    /\ \A i, j \in 1..Len(a) : i < j =>
         \/ Rank(a[i].step) < Rank(a[j].step)
         \/ Rank(a[i].step) = Rank(a[j].step) /\ a[i].created_at <= a[j].created_at
    /\ \A i, j \in 1..Len(a) :
         i < j /\ a[i].step = "security_admin_approval"
           => a[j].step = "security_admin_approval"

\* the page loaded a security_admin_approval row older than a row of an
\* unknown step and a tie of rank 3, and shows the admin row last
C10_Witness ==
  LET a == details["t1"].approvals IN
  /\ Interactive(details["t1"])
  /\ Len(a) = MaxRows
  /\ a[Len(a)].step = "security_admin_approval"
  /\ \E i, j \in 1..(Len(a) - 1) :
       /\ i < j
       /\ a[i].step # a[j].step
       /\ Rank(a[i].step) = 3 /\ Rank(a[j].step) = 3
       /\ OtherStep \in {a[i].step, a[j].step}
       /\ a[Len(a)].created_at < a[j].created_at

\* ------------------------------------------------------------------------
\* Properties of the role selections (SpecRoles)
\* ------------------------------------------------------------------------
\* a role page in tab t has saved: it shows the success page
Saved(t) ==
  /\ roles[t].page \in RolePages
  /\ roles'[t].page = "success"
  /\ roles'[t].toast = "saved"

\* C6: in every reachable state a request has no or one role-selection row,
\* whatever was saved, copied or edited before, and the step in which a role
\* page saves leaves exactly one row for its request
C6_OneRoleSelection ==
  /\ \A r \in RequestIds : Len(RoleRowsOf(r)) <= 1
  /\ [][/\ \A r \in RequestIds : Len(RoleRowsOf(r)') <= 1
        /\ \A t \in Tabs : Saved(t) =>
             Cardinality({i \in 1..Len(role_selections') :
                            role_selections'[i].request_id = roles[t].requestId}) = 1]_vars

\* request 2 got its row by the copy, was edited, and both tabs then saved
\* roles for it from different pages: one row, the later save's
C6_Witness ==
  /\ roles["t1"] = [page |-> "success", requestId |-> 2, toast |-> "saved"]
  /\ roles["t2"] = [page |-> "success", requestId |-> 2, toast |-> "saved"]
  /\ HasCopyDetails(2)
  /\ Len(RoleRowsOf(2)) = 1
  /\ RoleRowsOf(2)[1].page = "select"
  /\ tick[2] = MaxTick

\* ------------------------------------------------------------------------
\* Properties of the edit (SpecEdit)
\* ------------------------------------------------------------------------
\* the last write of onSubmit in tab t succeeds: the page navigates away
EditDone(t) == edit[t].pc = "resetApprovals" /\ edit'[t].pc = "closed"

StepRows(rows, step) == {row \in rows : row.step = step}

\* C7: when an edit that changes the area of a request from A to B ends, no
\* approval row of the request has A's area-specific step and, as the insert
\* of the area creates its approval rows, exactly one has B's (when B has one)
C7_AreaChangeReplacesStep ==
  [][\A t \in Tabs :
       (EditDone(t) /\ edit[t].existingArea # NULL
          /\ edit[t].existingArea # edit[t].securityArea) =>
         LET A == AreaStep(edit[t].existingArea)
             B == AreaStep(edit[t].securityArea)
             after == {row \in request_approvals' : row.request_id = edit[t].id}
         IN /\ A # NULL => StepRows(after, A) = {}
            /\ B # NULL => Cardinality(StepRows(after, B)) = 1]_vars

\* the edit of request 2 from hr_payroll to accounting_procurement has
\* replaced the area: no hr_director_approval row, one
\* accounting_director_approval row, the reset still to come
C7_Witness ==
  /\ edit["t2"].pc = "resetApprovals"
  /\ edit["t2"].existingArea = "hr_payroll"
  /\ edit["t2"].securityArea = "accounting_procurement"
  /\ StepRows(ApprovalsOf(2), "hr_director_approval") = {}
  /\ Cardinality(StepRows(ApprovalsOf(2), "accounting_director_approval")) = 1

\* C8: no step of an edit changes or removes a user_signature row or a row of
\* another request, or adds a row to another request; and when the edit ends
\* every other approval row of its request is pending with signature and
\* approved-at cleared
C8_EditResetsApprovals ==
  [][\A t \in Tabs : (edit[t].pc # "closed" /\ edit'[t] # edit[t]) =>
       LET id == edit[t].id IN
       /\ \A row \in request_approvals :
            (row.request_id # id \/ row.step = "user_signature")
              => row \in request_approvals'
       /\ \A row \in request_approvals' :
            row.request_id # id => row \in request_approvals
       /\ EditDone(t) =>
            \A row \in request_approvals' :
              (row.request_id = id /\ row.step # "user_signature") =>
                /\ row.status = "pending"
                /\ row.signature_data = NULL
                /\ row.approved_at = NULL]_vars

\* the edit of request 2 is about to reset: its user_signature row is
\* approved, another row is approved and one is denied
C8_Witness ==
  /\ edit["t2"].pc = "resetApprovals"
  /\ edit["t2"].id = 2
  /\ \E row \in ApprovalsOf(2) : row.step = "user_signature" /\ row.status = "approved"
  /\ \E row \in ApprovalsOf(2) : row.step # "user_signature" /\ row.status = "approved"
  /\ \E row \in ApprovalsOf(2) : row.step # "user_signature" /\ row.status = "denied"

\* ------------------------------------------------------------------------
\* Properties of the request list (SpecList)
\* ------------------------------------------------------------------------
\* C9: for every request the list page shows, getNextPendingApproval is none
\* when no row of the request is pending and else a pending row that is first
\* in canonical step order, whatever order the store returned the rows in
C9_NextPendingIsCanonical ==
  \A t \in Tabs : list[t].pc = "idle" =>
    \A r \in DOMAIN list[t].requests :
      LET rows == list[t].requests[r].request_approvals
          pending == {i \in 1..Len(rows) : rows[i].status = "pending"}
          next == getNextPendingApproval(list[t].requests[r])
      IN IF pending = {} THEN next = NULL
         ELSE /\ next \in {rows[i].step : i \in pending}
              /\ \A i \in pending : Rank(next) <= Rank(rows[i].step)

\* ------------------------------------------------------------------------
\* Properties of the navigation after a create or an edit (SpecRoles)
\* ------------------------------------------------------------------------
\* the role page of an area, as the navigation contract lists them
Destination(area) ==
  IF area = "elm" THEN "elm"
  ELSE IF area = "epm_data_warehouse" THEN "epm"
  ELSE IF area = "hr_payroll" THEN "hr"
  ELSE "select"

\* the main form in tab t has created a request and navigated away
Created(t) ==
  /\ roles[t].page = "form"
  /\ roles'[t].page \notin {"form", "closed"}

\* the area the request just created was submitted with
CreatedArea == (CHOOSE row \in security_areas' : row.request_id = nextRequestId).area_type

\* the request just created took the copy path
CreatedByCopy ==
  \E i \in 1..Len(copy_user_details') : copy_user_details'[i].request_id = nextRequestId

\* C11 as stated: every successful submission of the main form lands on the
\* role page of the chosen area and carries the id of the request just created
C11_CreateRoutesByArea ==
  [][\A t \in Tabs : Created(t) =>
       /\ roles'[t].requestId = nextRequestId
       /\ nextRequestId \in DOMAIN requests'
       /\ roles'[t].page = Destination(CreatedArea)]_vars

\* C11 amended: a successful submission with manual role selection lands on
\* the role page of the chosen area (elm, epm_data_warehouse, hr_payroll, else
\* the generic page); one with the copy option lands on the success page;
\* both carry the id of the request just created
C11_CreateRoutesByAreaUnlessCopy ==
  [][\A t \in Tabs : Created(t) =>
       /\ roles'[t].requestId = nextRequestId
       /\ nextRequestId \in DOMAIN requests'
       /\ roles'[t].page = IF CreatedByCopy THEN "success"
                           ELSE Destination(CreatedArea)]_vars

\* a request created for hr_payroll with manual selection is on the HR page
C11_Witness ==
  /\ roles["t1"] = [page |-> "hr", requestId |-> 2, toast |-> "submitted"]
  /\ \E row \in AreasOf(2) : row.area_type = "hr_payroll"
  /\ ~HasCopyDetails(2)

\* C12: the edit flow routes as the create flow does: when an edit with
\* manual role selection succeeds, the page it navigates to is the page the
\* create flow navigates to for the submitted area, with the request's id
C12_EditRoutesAsCreate ==
  [][\A t \in Tabs : (EditDone(t) /\ edit[t].selectedOption # "copy") =>
       /\ roles'[t].requestId = edit[t].id
       /\ roles'[t].page = RolePageOf(edit[t].securityArea)]_vars

\* ------------------------------------------------------------------------
\* Copy on create: request 1 of employee E1, pending or completed, has its
\* role selection; tab t1 creates request 2 for E1 or E2, copying from E1 or
\* E2 or selecting by hand, and saves roles
\* ------------------------------------------------------------------------
InitCopyFrom ==
  /\ \E status \in {"pending", "completed"} :
       /\ requests =
            (1 :> IF status = "completed"
                    THEN [RequestRow("E1") EXCEPT !.status = "completed",
                            !.completed_by = "Ann", !.completed_at = "t_complete"]
                    ELSE RequestRow("E1"))
       /\ request_approvals =
            {DecidedRow(1, st, 1, IF status = "completed" THEN "approved" ELSE "pending") :
               st \in TriggerSteps("hr_payroll")}
  /\ nextRequestId = 2
  /\ security_areas = {AreaRow(1, "hr_payroll", 1)}
  /\ \E selection \in Selections, j \in Justifications :
       role_selections = <<RoleData("hr", 1, selection, j)>>
  /\ copy_user_details = <<>>
  /\ tick = [r \in RequestIds |-> IF r = 1 THEN 1 ELSE 0]
  /\ testMode = FALSE
  /\ details = [t \in Tabs |-> DetailsClosed]
  /\ edit = [t \in Tabs |-> EditClosed]
  /\ roles = [t \in Tabs |-> RolesClosed]
  /\ list = [t \in Tabs |-> ListClosed]
  /\ faults = 0

NextCopyFrom ==
  \/ MainFormStep("t1", AreaTypes, {"copy", "select"}, EmployeeIds, CreateFailures)
  \/ RolePageStep("t1", BOOLEAN)

SpecCopyFrom == InitCopyFrom /\ [][NextCopyFrom]_vars

\* ------------------------------------------------------------------------
\* Properties of the copy from an existing user (SpecCopyFrom, SpecCopy)
\* ------------------------------------------------------------------------
\* the employee the request just created copies from
CopiedFrom ==
  LET i == CHOOSE i \in 1..Len(copy_user_details') :
             copy_user_details'[i].request_id = nextRequestId
  IN copy_user_details'[i].copy_user_employee_id

\* C13: a submission with the copy option whose source employee has no
\* completed request creates no role-selection row for the new request,
\* leaves every other request and every other role-selection row as they
\* were, and ends as a successful submission, also when the source employee
\* has a pending request with a role selection
C13_CopyWithoutCompletedIsNoOp ==
  [][\A t \in Tabs :
       (/\ Created(t)
        /\ CreatedByCopy
        /\ \A r \in DOMAIN requests :
             requests[r].employee_id = CopiedFrom => requests[r].status # "completed") =>
         /\ role_selections' = role_selections
         /\ \A r \in DOMAIN requests : requests'[r] = requests[r]
         /\ \A row \in request_approvals : row \in request_approvals'
         /\ roles'[t] = [page |-> "success", requestId |-> nextRequestId,
                         toast |-> "submitted"]]_vars

\* request 2 copied from E1, whose only request is pending and has a role
\* selection: no row for request 2
C13_Witness ==
  /\ requests[1].status = "pending" /\ requests[1].employee_id = "E1"
  /\ Len(RoleRowsOf(1)) = 1
  /\ 2 \in DOMAIN requests
  /\ \E i \in 1..Len(copy_user_details) :
       copy_user_details[i] = [request_id |-> 2, copy_user_employee_id |-> "E1"]
  /\ roles["t1"] = [page |-> "success", requestId |-> 2, toast |-> "submitted"]
  /\ RoleRowsOf(2) = <<>>

\* ------------------------------------------------------------------------
\* copyExistingUserRoles on its own, as the main form and as the edit page
\* define it: requests 1..MaxRequests of E1 and E2, pending or completed,
\* with or without a role selection, are the possible sources; the request
\* after them is the new one, with its copy-user details and with or without
\* a role selection of its own; tab t1 runs one copy for it
\* ------------------------------------------------------------------------
NewRequest == MaxRequests + 1

SourceRequests == 1..MaxRequests

SourceRoleRows(r) ==
  {<<>>} \cup {<<RoleData("hr", r, selection, j)>> :
                 selection \in Selections, j \in Justifications}

RECURSIVE Concat(_, _)
Concat(f, n) == IF n = 0 THEN <<>> ELSE Concat(f, n - 1) \o f[n]

InitCopy ==
  /\ \E employee \in [SourceRequests -> EmployeeIds],
        status \in [SourceRequests -> {"pending", "completed"}] :
       /\ requests =
            [r \in 1..NewRequest |->
               IF r = NewRequest THEN RequestRow("E2")
               ELSE IF status[r] = "completed"
                 THEN [RequestRow(employee[r]) EXCEPT !.status = "completed",
                         !.completed_by = "Ann", !.completed_at = "t_complete"]
                 ELSE RequestRow(employee[r])]
       /\ request_approvals =
            UNION {{DecidedRow(r, st, 1,
                      IF r # NewRequest /\ status[r] = "completed"
                        THEN "approved" ELSE "pending") :
                      st \in TriggerSteps("hr_payroll")} : r \in 1..NewRequest}
  /\ nextRequestId = NewRequest + 1
  /\ security_areas = {AreaRow(r, "hr_payroll", 1) : r \in 1..NewRequest}
  /\ \E rows \in [SourceRequests -> UNION {SourceRoleRows(r) : r \in SourceRequests}],
        own \in {<<>>, <<RoleData("select", NewRequest, "rolesA", "needed")>>} :
       /\ \A r \in SourceRequests : rows[r] \in SourceRoleRows(r)
       /\ role_selections = Concat(rows, MaxRequests) \o own
  /\ \E c \in EmployeeIds :
       copy_user_details = <<[request_id |-> NewRequest, copy_user_employee_id |-> c]>>
  /\ tick = [r \in RequestIds |-> 1]
  /\ testMode = FALSE
  /\ details = [t \in Tabs |-> DetailsClosed]
  /\ edit = [t \in Tabs |-> EditClosed]
  /\ roles = [t \in Tabs |->
                IF t = "t1" THEN [page |-> "form", requestId |-> 0, toast |-> "none"]
                ELSE RolesClosed]
  /\ list = [t \in Tabs |-> ListClosed]
  /\ faults = 0

\* the employee the new request's copy-user details name
CopyUserEmployeeId ==
  (CHOOSE row \in {copy_user_details[i] : i \in 1..Len(copy_user_details)} :
     row.request_id = NewRequest).copy_user_employee_id

\* App.copyExistingUserRoles(NewRequest, ..) and what onSubmit does after it
AppCopy(t, fail) ==
  /\ roles[t].page = "form"
  /\ fail \in {"none", "find", "roles", "insert"}
  /\ role_selections' =
       copyExistingUserRoles(role_selections, NewRequest, CopyUserEmployeeId, fail)
  /\ roles' = [roles EXCEPT ![t] =
       [page |-> "success", requestId |-> NewRequest, toast |-> "submitted"]]
  /\ UNCHANGED <<requests, nextRequestId, security_areas, request_approvals,
                 copy_user_details, tick, testMode, details, edit, list>>
  /\ StoreAnswers(fail = "none")

\* EditRequestPage's copyExistingUserRoles(NewRequest, ..), which no handler
\* of the page calls
EditCopy(t, fail) ==
  /\ roles[t].page = "form"
  /\ fail \in {"none", "find", "roles", "delete", "insert"}
  /\ role_selections' =
       EditRequestPage_copyExistingUserRoles(role_selections, NewRequest,
                                             CopyUserEmployeeId, fail)
  /\ roles' = [roles EXCEPT ![t] =
       [page |-> "copied", requestId |-> NewRequest, toast |-> "none"]]
  /\ UNCHANGED <<requests, nextRequestId, security_areas, request_approvals,
                 copy_user_details, tick, testMode, details, edit, list>>
  /\ StoreAnswers(fail = "none")

NextCopy ==
  \/ \E fail \in CreateFailures : AppCopy("t1", fail)
  \/ \E fail \in CreateFailures \cup {"delete"} : EditCopy("t1", fail)

SpecCopy == InitCopy /\ [][NextCopy]_vars

\* tab t runs a copy for the new request and no store call is rejected
Copied(t) ==
  /\ roles[t].page = "form"
  /\ roles'[t].page \in {"success", "copied"}
  /\ roles'[t].requestId = NewRequest
  /\ faults' = faults

\* the completed requests of the employee the new request copies from
CompletedSources ==
  {r \in SourceRequests :
     /\ requests[r].status = "completed"
     /\ requests[r].employee_id = CopyUserEmployeeId}

\* the latest of them: ids are given in the order of creation
LatestSource == CHOOSE r \in CompletedSources : \A q \in CompletedSources : q <= r

\* the row a copy of row for the new request is
CopyOf(row) ==
  [row EXCEPT !.request_id = NewRequest,
              !.role_justification =
                 IF row.role_justification = "" THEN CopiedJustification
                 ELSE row.role_justification]

C15_CopyFromLatestCompleted ==
  [][\A t \in Tabs :
       (/\ Copied(t)
        /\ roles'[t].page = "success"
        /\ RoleRowsOf(NewRequest) = <<>>
        /\ CompletedSources # {}
        /\ Len(RoleRowsOf(LatestSource)) = 1) =>
          LET source == RoleRowsOf(LatestSource)[1]
              new == SelectSeq(role_selections', LAMBDA row : row.request_id = NewRequest)
          IN /\ Len(new) = 1
             /\ new[1].request_id = NewRequest
             /\ new[1].page = source.page
             /\ new[1].selection = source.selection
             /\ new[1].role_justification =
                  IF source.role_justification = ""
                    THEN "Copied from existing user access"
                    ELSE source.role_justification
             /\ SelectSeq(role_selections', LAMBDA row : row.request_id # NewRequest)
                  = role_selections]_vars

\* requests 1 and 2 of E1 are both completed and request 3, pending, copied
\* from E1: its row is request 2's, with the default justification
C15_Witness ==
  /\ roles["t1"] = [page |-> "success", requestId |-> NewRequest, toast |-> "submitted"]
  /\ \A r \in {1, 2} : requests[r].status = "completed" /\ requests[r].employee_id = "E1"
  /\ CopyUserEmployeeId = "E1"
  /\ RoleRowsOf(1) = <<RoleData("hr", 1, "none", "needed")>>
  /\ RoleRowsOf(2) = <<RoleData("hr", 2, "rolesA", "")>>
  /\ RoleRowsOf(NewRequest) = <<RoleData("hr", NewRequest, "rolesA", CopiedJustification)>>

\* ------------------------------------------------------------------------
\* Properties of the role pages' validation (SpecRoles)
\* ------------------------------------------------------------------------
ValidationToasts ==
  {"justification_required", "acknowledgment_required", "select_at_least_one"}

elmRoles ==
  {"learningAdministrator", "learningCatalogAdministrator", "rosterAdministrator",
   "enrollmentAdministrator", "maintainApprovals", "profileAdministrator",
   "externalLearnerSecurityAdministrator", "sandboxAccess"}

\* two roles written to each other's column
elmRoleData_Swapped(requestId, data, justification) ==
  RoleData("elm", requestId,
    [elm_system_administrator    |-> data["externalLearnerSecurityAdministrator"],
     elm_key_administrator       |-> data["learningAdministrator"],
     elm_course_administrator    |-> data["learningCatalogAdministrator"],
     elm_reporting_administrator |-> data["rosterAdministrator"],
     manage_user_accounts        |-> data["profileAdministrator"],
     assign_user_roles           |-> data["enrollmentAdministrator"],
     view_user_progress          |-> data["maintainApprovals"],
     system_backup_access        |-> data["sandboxAccess"]],
    justification)

\* elmRoleData of onSubmit
elmRoleData(requestId, data, justification) ==
  RoleData("elm", requestId,
    [elm_system_administrator    |-> data["learningAdministrator"],
     elm_key_administrator       |-> data["externalLearnerSecurityAdministrator"],
     elm_course_administrator    |-> data["learningCatalogAdministrator"],
     elm_reporting_administrator |-> data["rosterAdministrator"],
     manage_user_accounts        |-> data["profileAdministrator"],
     assign_user_roles           |-> data["enrollmentAdministrator"],
     view_user_progress          |-> data["maintainApprovals"],
     system_backup_access        |-> data["sandboxAccess"]],
    justification)

\* ElmRoleSelectionPage.onSubmit with the form's data
elmOnSubmit(t, data, justification, supervisorApproval, ok) ==
  /\ roles[t].page = "elm"
  /\ LET selection == IF \E role \in elmRoles : data[role] THEN "rolesA" ELSE "none"
         invalid == RoleValidation("elm", selection, justification, supervisorApproval)
     IN /\ IF invalid # ""
             THEN /\ roles' = [roles EXCEPT ![t].toast = invalid]
                  /\ UNCHANGED role_selections
             ELSE IF ~ok \/ ~Live(roles[t].requestId)
               THEN /\ roles' = [roles EXCEPT ![t].toast = "save_failed"]
                    /\ UNCHANGED role_selections
               ELSE /\ role_selections' =
                         SaveRoleData(role_selections,
                           elmRoleData(roles[t].requestId, data, justification))
                    /\ roles' = [roles EXCEPT ![t].page = "success", ![t].toast = "saved"]
        /\ StoreAnswers(ok \/ invalid # "")
  /\ UNCHANGED <<requests, nextRequestId, security_areas, request_approvals,
                 copy_user_details, tick, testMode, details, edit, list>>

NextElm ==
  \/ OpenMainForm("t1")
  \/ \E fail \in {"none", "request", "area"} :
       nextRequestId = 1 /\ handleProceedToRoleSelection("t1", "elm", "E1", fail)
  \/ \E data \in [elmRoles -> BOOLEAN], j \in Justifications, ack \in BOOLEAN,
        ok \in BOOLEAN :
       elmOnSubmit("t1", data, j, ack, ok)

SpecElm == Init /\ [][NextElm]_vars

\* ------------------------------------------------------------------------
\* Properties of the ELM page's mapping (SpecElm)
\* ------------------------------------------------------------------------
\* the column of each ELM role
ElmColumn ==
  [role \in elmRoles |->
     CASE role = "learningAdministrator" -> "elm_system_administrator"
       [] role = "externalLearnerSecurityAdministrator" -> "elm_key_administrator"
       [] role = "learningCatalogAdministrator" -> "elm_course_administrator"
       [] role = "rosterAdministrator" -> "elm_reporting_administrator"
       [] role = "profileAdministrator" -> "manage_user_accounts"
       [] role = "enrollmentAdministrator" -> "assign_user_roles"
       [] role = "maintainApprovals" -> "view_user_progress"
       [] role = "sandboxAccess" -> "system_backup_access"]

\* the row tab t's request has after the step
SavedRow(t) ==
  SelectSeq(role_selections', LAMBDA row : row.request_id = roles[t].requestId)[1]

\* C17: the 8 ELM roles go to 8 different columns, and a successful ELM save
\* of any non-empty subset of the roles leaves the request's row true on
\* exactly the columns of the selected roles; with learningAdministrator
\* alone, elm_system_administrator is true and the other 7 columns are false
C17_ElmRolesToColumns ==
  /\ \A r1, r2 \in elmRoles : ElmColumn[r1] = ElmColumn[r2] => r1 = r2
  /\ [][\A t \in Tabs, data \in [elmRoles -> BOOLEAN] :
          (Saved(t) /\ elmOnSubmit(t, data, "needed", TRUE, TRUE)) =>
            /\ DOMAIN SavedRow(t).selection = {ElmColumn[role] : role \in elmRoles}
            /\ \A role \in elmRoles : SavedRow(t).selection[ElmColumn[role]] = data[role]
            /\ (\A role \in elmRoles : data[role] <=> role = "learningAdministrator") =>
                 \A column \in DOMAIN SavedRow(t).selection :
                   SavedRow(t).selection[column] <=> column = "elm_system_administrator"]_vars

\* the ELM page saved learningAdministrator alone
C17_Witness ==
  /\ roles["t1"].page = "success" /\ roles["t1"].toast = "saved"
  /\ Len(RoleRowsOf(1)) = 1
  /\ RoleRowsOf(1)[1].page = "elm"
  /\ RoleRowsOf(1)[1].selection =
       [elm_system_administrator |-> TRUE, elm_key_administrator |-> FALSE,
        elm_course_administrator |-> FALSE, elm_reporting_administrator |-> FALSE,
        manage_user_accounts |-> FALSE, assign_user_roles |-> FALSE,
        view_user_progress |-> FALSE, system_backup_access |-> FALSE]

\* ------------------------------------------------------------------------
\* Auto-approval in test mode: tab t1 creates the request, switches test
\* mode, watches the details page and auto-approves; meanwhile the approvers
\* sign and tab t2 edits the request without changing its area
\* ------------------------------------------------------------------------
NextAuto ==
  \/ OpenMainForm("t1")
  \/ toggleTestMode("t1")
  \/ \E area \in GateAreas, fail \in {"none", "request", "area"} :
       nextRequestId = 1 /\ handleProceedToRoleSelection("t1", area, "E1", fail)
  \/ ApproverStep
  \/ \E r \in RequestIds : OpenDetails("t1", r)
  \/ \E ok \in BOOLEAN : fetchRequest("t1", ok)
  \/ \E ok \in BOOLEAN :
       \E approvalsData \in OrdersByCreatedAt(ApprovalsOf(details["t1"].id)) :
         fetchApprovals("t1", ok, approvalsData)
  \/ \E n \in 0..(MaxTick * 4) : handleAutoApprove("t1", n)
  \/ \E r \in RequestIds, ok \in BOOLEAN, a \in AreaTypes \cup {NULL} :
       OpenEdit("t2", r, ok, a)
  \/ \E a \in GateAreas, ok \in BOOLEAN : editSubmit("t2", a, "select", "E1", ok)
  \/ \E ok \in BOOLEAN : editArea("t2", ok)
  \/ \E ok \in BOOLEAN : editDeleteCopyDetails("t2", ok)
  \/ \E ok \in BOOLEAN : editDeleteRoleSelections("t2", ok)
  \/ \E ok \in BOOLEAN : editResetApprovals("t2", ok)

SpecAuto == Init /\ [][NextAuto]_vars

\* ------------------------------------------------------------------------
\* Properties of the auto-approval (SpecAuto)
\* ------------------------------------------------------------------------
\* C18: an auto-approval that does not fail sets every row of the request
\* that is pending in the store to approved with the test signature and a
\* timestamp, leaves the request's approved and denied rows and the rows of
\* other requests as they are, and the number it reports is the number of
\* rows that were pending; rows get the test signature in test mode only
C18_AutoApproveAllPending ==
  [][/\ \A t \in Tabs, n \in 0..(MaxTick * 4) :
          (handleAutoApprove(t, n) /\ details'[t].toast # "auto_approve_failed") =>
            /\ \A row \in request_approvals :
                 IF row.request_id = details[t].id /\ row.status = "pending"
                   THEN [row EXCEPT !.status = "approved",
                                    !.signature_data = "Test Mode Auto-Signature",
                                    !.approved_at = "t_auto"] \in request_approvals'
                   ELSE row \in request_approvals'
            /\ Cardinality(request_approvals') = Cardinality(request_approvals)
            /\ n = Cardinality({row \in request_approvals :
                                  row.request_id = details[t].id /\ row.status = "pending"})
     /\ (\E row \in request_approvals' \ request_approvals :
           row.signature_data = "Test Mode Auto-Signature") => testMode]_vars

\* ------------------------------------------------------------------------
\* Deleting: requests 1..MaxRequests are stored, each with its area, its
\* approval rows, a role selection and copy-user details; both tabs list the
\* requests and delete
\* ------------------------------------------------------------------------
InitDelete ==
  /\ requests = [r \in RequestIds |-> RequestRow("E1")]
  /\ nextRequestId = MaxRequests + 1
  /\ security_areas = {AreaRow(r, "epm_data_warehouse", 1) : r \in RequestIds}
  /\ request_approvals =
       UNION {ApprovalsOnAreaInsert(r, "epm_data_warehouse", 1) : r \in RequestIds}
  /\ role_selections = [r \in RequestIds |-> RoleData("epm", r, "rolesA", "needed")]
  /\ copy_user_details =
       [r \in RequestIds |-> [request_id |-> r, copy_user_employee_id |-> "E2"]]
  /\ tick = [r \in RequestIds |-> 1]
  /\ testMode = FALSE
  /\ details = [t \in Tabs |-> DetailsClosed]
  /\ edit = [t \in Tabs |-> EditClosed]
  /\ roles = [t \in Tabs |-> RolesClosed]
  /\ list = [t \in Tabs |-> ListClosed]
  /\ faults = 0

NextDelete ==
  \/ ListStep("t1", BOOLEAN)
  \/ ListStep("t2", BOOLEAN)

SpecDelete == InitDelete /\ [][NextDelete]_vars

\* ------------------------------------------------------------------------
\* Properties of the delete (SpecDelete)
\* ------------------------------------------------------------------------
\* the rows of every table that reference request r, in this state
RowsOf(r) ==
  <<AreasOf(r), ApprovalsOf(r), RoleRowsOf(r),
    SelectSeq(copy_user_details, LAMBDA row : row.request_id = r)>>

\* C19: when a delete of request r from a list page succeeds, r is gone
\* from the store with every area, approval, role-selection and copy-user row
\* that referenced it, and from the page's list; every other request and its
\* rows are as before; this also holds when r had already been deleted from
\* another page, and then the store does not change at all
C19_DeleteCascadesAndRepeats ==
  [][\A t \in Tabs, r \in RequestIds :
       handleDeleteConfirm(t, r, TRUE) =>
         /\ r \notin DOMAIN requests'
         /\ RowsOf(r)' = <<{}, {}, <<>>, <<>>>>
         /\ r \notin DOMAIN list'[t].requests
         /\ list'[t].toast = "deleted"
         /\ \A q \in DOMAIN requests \ {r} :
              /\ q \in DOMAIN requests'
              /\ requests'[q] = requests[q]
              /\ RowsOf(q)' = RowsOf(q)
         /\ r \notin DOMAIN requests => UNCHANGED storeVars]_vars

\* request 1 was deleted from both tabs' lists, the second time when it was
\* already gone; request 2 has all its rows
C19_Witness ==
  /\ 1 \notin DOMAIN requests
  /\ \A t \in Tabs :
       /\ list[t].pc = "idle"
       /\ list[t].toast = "deleted"
       /\ DOMAIN list[t].requests = {2}
  /\ 2 \in DOMAIN requests
  /\ Cardinality(ApprovalsOf(2)) = 3
  /\ Len(RoleRowsOf(2)) = 1

\* ------------------------------------------------------------------------
\* Properties of the completion (SpecStatus)
\* ------------------------------------------------------------------------
BlankNames == {"", " "}

\* C20: a completion with an empty or blank completer name is refused before
\* any store call: nothing in the store changes and the page asks for the
\* name; so in every state a completed request has a completer name that is
\* not blank and a completion time, and a request that is not completed has
\* neither
C20_CompletedHasCompleter ==
  /\ \A r \in DOMAIN requests :
       IF requests[r].status = "completed"
         THEN /\ requests[r].completed_by \notin BlankNames \cup {NULL}
              /\ requests[r].completed_at # NULL
         ELSE /\ requests[r].completed_by = NULL
              /\ requests[r].completed_at = NULL
  /\ [][\A t \in Tabs, name \in BlankNames, ok \in BOOLEAN :
          handleCompleteRequest(t, name, ok) =>
            /\ UNCHANGED storeVars
            /\ faults' = faults
            /\ details'[t].toast = "name_required"
            /\ details'[t].pc = details[t].pc]_vars

\* the details page shows a request that can be completed and has refused a
\* blank completer name: the request is still pending, with no completer
C20_Witness ==
  /\ Interactive(details["t1"])
  /\ canCompleteRequest(details["t1"])
  /\ details["t1"].toast = "name_required"
  /\ requests[1].status = "pending"
  /\ requests[1].completed_by = NULL

\* ------------------------------------------------------------------------
\* Decided approval rows: the sessions of SpecAuto and the completion of the
\* request from the details page
\* ------------------------------------------------------------------------
NextTerminal ==
  \/ NextAuto
  \/ \E name \in CompleterNames, ok \in BOOLEAN : handleCompleteRequest("t1", name, ok)

SpecTerminal == Init /\ [][NextTerminal]_vars

\* ------------------------------------------------------------------------
\* Properties of decided approval rows (SpecTerminal)
\* ------------------------------------------------------------------------
\* the row of request_approvals' that has the id of row
RowAfter(row) == {after \in request_approvals' : RowId(after) = RowId(row)}

\* the step is the reset of an edit of the request of row
ResetOf(row) ==
  \E t \in Tabs :
    /\ edit[t].pc = "resetApprovals"
    /\ edit'[t].pc = "closed"
    /\ edit[t].id = row.request_id

\* C21: a row that is approved or denied keeps its status in every step of
\* the approvers, the auto-approval and the completion; only the reset of an
\* edit changes it, and then to pending and never for user_signature
C21_DecidedIsTerminal ==
  [][\A row \in request_approvals : row.status \in {"approved", "denied"} =>
       \A after \in RowAfter(row) :
         \/ after.status = row.status
         \/ /\ after.status = "pending"
            /\ row.step # "user_signature"
            /\ ResetOf(row)]_vars

\* ---------------------------------------------------------------------------
\* C22: every edit that goes on to reset the approvals has cleared the role
\* selection of its request

\* the step of onSubmit that follows the delete of the role selections
RoleSelectionsStep(t) ==
  edit[t].pc = "deleteRoleSelections" /\ edit'[t].pc = "resetApprovals"

\* C22: after editRequest, with the same or another area and with either
\* option, the request has no role-selection row: the step of the edit past its
\* delete of the role selections, which every successful edit takes, leaves no
\* role-selection row of the request in the store
C22_EditClearsRoleSelection ==
  [][\A t \in Tabs :
       RoleSelectionsStep(t) =>
         SelectSeq(role_selections', LAMBDA row : row.request_id = edit[t].id) = <<>>]_vars

\* ---------------------------------------------------------------------------
\* C23: the edit that keeps the area type neither removes nor adds rows

\* a step of the onSubmit of tab t whose form holds the area type it loaded
SameAreaStep(t) ==
  /\ edit'[t] # edit[t]
  /\ \/ /\ edit[t].pc \in {"area", "deleteCopyDetails", "insertCopyDetails",
                           "deleteRoleSelections", "resetApprovals"}
        /\ edit[t].existingArea # NULL
        /\ edit[t].existingArea = edit[t].securityArea
     \/ /\ edit[t].pc = "form"
        /\ edit'[t].pc = "area"
        /\ edit'[t].existingArea # NULL
        /\ edit'[t].existingArea = edit'[t].securityArea

\* C23: an edit submitted with the area type of the existing security area
\* deletes and inserts no security area row, deletes and creates no approval
\* row, and so leaves the approval steps of the request as they were
C23_SameAreaUpdatesInPlace ==
  [][\A t \in Tabs :
       SameAreaStep(t) =>
         /\ security_areas' = security_areas
         /\ {RowId(row) : row \in request_approvals'}
              = {RowId(row) : row \in request_approvals}]_vars

\* an edit with the loaded area type has got through to its last store call
C23_Witness ==
  \E t \in Tabs :
    /\ edit[t].pc = "resetApprovals"
    /\ edit[t].existingArea # NULL
    /\ edit[t].existingArea = edit[t].securityArea
    /\ AreasOf(edit[t].id) # {}
    /\ ApprovalsOf(edit[t].id) # {}

\* ---------------------------------------------------------------------------
\* C24: a create whose second insert is rejected keeps its request row

CreateFailureToasts == {"submit_failed", "create_failed"}

\* tab t stays on the main form with the failure toast
CreateReported(t) ==
  /\ roles'[t].page = "form"
  /\ roles'[t].toast \in CreateFailureToasts

\* C24: when the insert of the request succeeds and the insert of the security
\* area is rejected, the create reports the failure, stays on the main form,
\* and leaves the new request stored without security area and without
\* approval rows; when the insert of the request is rejected, no table changes
C24_CreateIsNotRolledBack ==
  [][\A t \in Tabs, area \in AreaTypes, e \in EmployeeIds :
       (roles[t].page = "form" /\ faults' # faults) =>
       /\ \A option \in {"copy", "select"}, c \in EmployeeIds :
            /\ onSubmit(t, area, option, e, c, "area") =>
                 /\ CreateReported(t)
                 /\ nextRequestId \in DOMAIN requests'
                 /\ \A r \in DOMAIN requests : requests'[r] = requests[r]
                 /\ {row \in security_areas' : row.request_id = nextRequestId} = {}
                 /\ {row \in request_approvals' : row.request_id = nextRequestId} = {}
                 /\ UNCHANGED <<security_areas, request_approvals, role_selections,
                                copy_user_details>>
            /\ onSubmit(t, area, option, e, c, "request") =>
                 CreateReported(t) /\ UNCHANGED storeVars
       /\ handleProceedToRoleSelection(t, area, e, "area") =>
            /\ CreateReported(t)
            /\ nextRequestId \in DOMAIN requests'
            /\ \A r \in DOMAIN requests : requests'[r] = requests[r]
            /\ {row \in security_areas' : row.request_id = nextRequestId} = {}
            /\ {row \in request_approvals' : row.request_id = nextRequestId} = {}
            /\ UNCHANGED <<security_areas, request_approvals, role_selections,
                           copy_user_details>>
       /\ handleProceedToRoleSelection(t, area, e, "request") =>
            CreateReported(t) /\ UNCHANGED storeVars]_vars

\* a request is stored without security area and approval rows while its
\* creator is on the main form with the failure toast
C24_Witness ==
  \E t \in Tabs, r \in DOMAIN requests :
    /\ roles[t].page = "form"
    /\ roles[t].toast \in CreateFailureToasts
    /\ AreasOf(r) = {}
    /\ ApprovalsOf(r) = {}

\* ---------------------------------------------------------------------------
\* C25: a rejected store call of the edit ends the edit

\* the positions of onSubmit of the edit page, one per store call
SubmitPcs ==
  {"form", "area", "deleteApprovals", "insertArea", "deleteCopyDetails",
   "insertCopyDetails", "deleteRoleSelections", "resetApprovals"}

\* a step of the onSubmit of tab t in which the store rejects the call
RejectedStep(t) ==
  /\ edit[t].pc \in SubmitPcs
  /\ edit'[t] # edit[t]
  /\ faults' # faults
  /\ ~ \E r \in RequestIds, a \in AreaTypes \cup {NULL} : OpenEdit(t, r, FALSE, a)

\* C25: whichever store call of the edit is rejected, the delete of the copy
\* details and the delete of the role selections included, the edit stops
\* there and reports the failure, and the tables keep what the earlier calls
\* wrote
C25_EditFailureAborts ==
  [][\A t \in Tabs :
       RejectedStep(t) =>
         /\ edit'[t] = EditFailed(edit[t])
         /\ UNCHANGED storeVars]_vars

\* ---------------------------------------------------------------------------
\* C26: two sessions editing one request

\* request 1 of E1, pending, with the rows of its create at instant 0
InitTwoEdits ==
  /\ requests = (1 :> RequestRow("E1"))
  /\ nextRequestId = 2
  /\ security_areas = {AreaRow(1, "hr_payroll", 0)}
  /\ request_approvals = ApprovalsOnAreaInsert(1, "hr_payroll", 0)
  /\ role_selections = <<>>
  /\ copy_user_details = <<>>
  /\ tick = [r \in RequestIds |-> 0]
  /\ testMode = FALSE
  /\ details = [t \in Tabs |-> DetailsClosed]
  /\ edit = [t \in Tabs |-> EditClosed]
  /\ roles = [t \in Tabs |-> RolesClosed]
  /\ list = [t \in Tabs |-> ListClosed]
  /\ faults = 0

\* what each session submits: the employee id tells the two edits apart
EditOf(t) ==
  IF t = "t1"
    THEN [areas |-> {"accounting_procurement"}, employee |-> "E1"]
    ELSE [areas |-> {"epm_data_warehouse"}, employee |-> "E2"]

NextTwoEdits ==
  \/ EditStep("t1", EditOf("t1").areas, {"select"}, {EditOf("t1").employee}, BOOLEAN)
  \/ EditStep("t2", EditOf("t2").areas, {"select", "copy"}, {EditOf("t2").employee},
              BOOLEAN)

SpecTwoEdits == InitTwoEdits /\ [][NextTwoEdits]_vars

\* the onSubmit of tab t has shown its success toast and navigated
Updated(t) ==
  /\ edit[t].pc = "closed"
  /\ roles[t].toast = "updated" \/ list[t].toast = "updated"

\* the rows an edit to area a by tab t leaves when it runs alone and last
LastWriteOf(t, a) ==
  /\ requests[1].employee_id = EditOf(t).employee
  /\ {row.area_type : row \in AreasOf(1)} = {a}
  /\ Cardinality(AreasOf(1)) = 1
  /\ {row.step : row \in ApprovalsOf(1)} \cap AreaSpecificSteps
       = TriggerSteps(a) \cap AreaSpecificSteps

OneAreaAfter(r, a) ==
  LET after == {row \in security_areas' : row.request_id = r} IN
    /\ Cardinality(after) = 1
    /\ \A row \in after : row.area_type = a

\* no edit page is between the first and the last store call of an onSubmit on r
NoEditUnderWay(r) ==
  \A t \in Tabs : edit[t].pc \in {"closed", "form"} \/ edit[t].id # r

\* C27: while no store call has been rejected, a create leaves its request with
\* exactly one security area row, of the area chosen; an edit that ends with
\* success leaves exactly one row, of the area it submitted; and no step
\* outside an edit changes the security areas of a stored request
C27_OneAreaOfLastChoice ==
  [][faults' = 0 =>
       /\ \A t \in Tabs :
            (roles[t].page = "form" /\ nextRequestId' # nextRequestId) =>
              \A area \in AreaTypes, option \in {"copy", "select"},
                 e \in EmployeeIds, c \in EmployeeIds :
                /\ onSubmit(t, area, option, e, c, "none") =>
                     OneAreaAfter(nextRequestId, area)
                /\ handleProceedToRoleSelection(t, area, e, "none") =>
                     OneAreaAfter(nextRequestId, area)
       /\ \A t \in Tabs :
            EditDone(t) => OneAreaAfter(edit[t].id, edit[t].securityArea)
       /\ \A r \in DOMAIN requests :
            NoEditUnderWay(r) =>
              {row \in security_areas' : row.request_id = r} = AreasOf(r)]_vars

\* an edit that replaced the security area has ended with success and no store
\* call has been rejected
C27_Witness ==
  \E t \in Tabs :
    /\ faults = 0
    /\ roles[t].toast = "updated"
    /\ \E row \in AreasOf(roles[t].requestId) : row.created_at = 2

\* ---------------------------------------------------------------------------
\* C28: one approval row per step

\* C28: with approval rows created for user_signature, supervisor_approval,
\* the area's own step and security_admin_approval at every insert of a
\* security area, each request has at most one approval row per step after
\* creates and edits, an edit to another area included
C28_OneApprovalPerStep ==
  \A r \in RequestIds, step \in Steps :
    Cardinality(StepRows(ApprovalsOf(r), step)) <= 1

\* ---------------------------------------------------------------------------
\* C29: the role page a flow opens is the one of the stored area

\* tab t arrives at a role-selection page in this step
RoutedToRolePage(t) ==
  /\ roles[t].page \notin RolePages
  /\ roles'[t].page \in RolePages

\* C29: whenever the create or the edit flow routes a tab to the
\* role-selection page of an area for a request, the stored security area of
\* that request is of that area; choosing elm on the edit page does not open
\* the ELM page over a request whose stored area is still the previous one
C29_RoutedPageMatchesStoredArea ==
  [][\A t \in Tabs :
       RoutedToRolePage(t) =>
         \A row \in security_areas' :
           row.request_id = roles'[t].requestId =>
             RolePageOf(row.area_type) = roles'[t].page]_vars

\* ---------------------------------------------------------------------------
\* C30: completion by auto-approval, and what a denied signature excludes

\* request 1 of E1, pending, some of its approval rows already approved and
\* none denied; test mode is on and tab t1 has just opened the details page
InitCompletion ==
  /\ requests = (1 :> RequestRow("E1"))
  /\ nextRequestId = 2
  /\ \E a \in GateAreas :
       /\ security_areas = {AreaRow(1, a, 1)}
       /\ \E status \in [TriggerSteps(a) -> {"pending", "approved"}] :
            request_approvals =
              {DecidedRow(1, st, 1, status[st]) : st \in TriggerSteps(a)}
  /\ role_selections = <<>>
  /\ copy_user_details = <<>>
  /\ tick = [r \in RequestIds |-> IF r = 1 THEN 1 ELSE 0]
  /\ testMode = TRUE
  /\ details = [t \in Tabs |->
       IF t = "t1"
         THEN [pc |-> "fetchRequest", id |-> 1, request |-> NoRequest,
               approvals |-> <<>>, loading |-> TRUE, error |-> FALSE,
               toast |-> "none"]
         ELSE DetailsClosed]
  /\ edit = [t \in Tabs |-> EditClosed]
  /\ roles = [t \in Tabs |-> RolesClosed]
  /\ list = [t \in Tabs |-> ListClosed]
  /\ faults = 0

\* the continuations of fetchRequestDetails when the store answers
LoadRequest == fetchRequest("t1", TRUE)

LoadApprovals ==
  \E approvalsData \in OrdersByCreatedAt(ApprovalsOf(details["t1"].id)) :
    fetchApprovals("t1", TRUE, approvalsData)

\* the user reloads the page that shows the error
Reload == details["t1"].error /\ OpenDetails("t1", 1)

\* the user clicks the test button and every update is accepted
AutoApproveAll ==
  handleAutoApprove("t1", Len(pendingApprovals(details["t1"].approvals)))

\* the user completes with a name and the update is accepted
CompleteNamed == handleCompleteRequest("t1", "Ann", TRUE)

NextCompletion ==
  \/ OpenDetails("t1", 1)
  \/ \E ok \in BOOLEAN : fetchRequest("t1", ok)
  \/ \E ok \in BOOLEAN :
       \E approvalsData \in OrdersByCreatedAt(ApprovalsOf(details["t1"].id)) :
         fetchApprovals("t1", ok, approvalsData)
  \/ \E n \in 0..(MaxTick * 4) : handleAutoApprove("t1", n)
  \/ \E name \in CompleterNames, ok \in BOOLEAN : handleCompleteRequest("t1", name, ok)
  \/ ApproverStep

\* the fetches run to their end; the user of the scenario keeps clicking the
\* test button and the complete button whenever the page offers them
SpecCompletion ==
  /\ InitCompletion
  /\ [][NextCompletion]_vars
  /\ WF_vars(LoadRequest)
  /\ WF_vars(LoadApprovals)
  /\ WF_vars(Reload)
  /\ SF_vars(AutoApproveAll)
  /\ SF_vars(CompleteNamed)

HasDenied(r) == \E row \in ApprovalsOf(r) : row.status = "denied"

DeniedSignature(r) ==
  \E row \in ApprovalsOf(r) : row.step = "user_signature" /\ row.status = "denied"

Completed(r) == requests[r].status = "completed"

\* a pending request with approval rows, none denied, gets completed by
\* auto-approval and a completion with a name, unless a row is denied first
CompletionReachable ==
  (~Completed(1) /\ ApprovalsOf(1) # {} /\ ~HasDenied(1))
    ~> (Completed(1) \/ HasDenied(1))

\* once completed, the request stays completed and no page that has read it
\* offers the completion
CompletionStable ==
  [](Completed(1) =>
       [](/\ Completed(1)
          /\ \A t \in Tabs :
               details[t].request.status = "completed" =>
                 ~canCompleteRequest(details[t])))

\* a request whose user_signature row is denied is never completed
DeniedNeverCompletes ==
  [](DeniedSignature(1) => [](~Completed(1)))

\* C30: from a pending request with approval rows and no denied row,
\* auto-approving the pending rows in test mode and then completing with a
\* name leads to status completed, after which the completion is never offered
\* again; and a request with a denied user_signature row never reaches
\* completed
C30_CompletionReachableAndStable ==
  /\ CompletionReachable
  /\ CompletionStable
  /\ DeniedNeverCompletes

====
